---- MODULE Spec2Model ----
(***************************************************************************)
(* Model of the two-stage agent control loop of AIAgentOutreach            *)
(* (agents/agent/base_agent.py, agents/outreach_agent/outreach_agent.py).  *)
(*                                                                         *)
(* A turn is a record [role, content].  The content of a turn is the       *)
(* tuple of the parts of the Python string (the constant text first, then  *)
(* the interpolated values), so that two turns are equal exactly when the  *)
(* Python strings are equal.  A track is a sequence of turns.              *)
(***************************************************************************)
EXTENDS Integers, Sequences, FiniteSets, TLC

(***************************************************************************)
(* Bounds of the model.                                                    *)
(***************************************************************************)
\* total number of _call_model calls one agent makes in its life
MaxModelCalls == 3
\* largest max_iterations argument given to _execute_plan
MaxIterations == 2
\* largest final_checks argument given to _execute_plan
MaxFinalChecks == 1
\* number of responses without choices the model-serving API returns
MaxChoiceless == 1

(***************************************************************************)
(* Program constants.                                                      *)
(***************************************************************************)
\* _call_model: max_retries: int = 5
max_retries == 5
\* _call_model: if expected_tokens > 13000
TOKEN_LIMIT == 13000
\* _format_tool_result: max_length: int = 1000
max_length == 1000

\* Python's None
None == "<None>"
\* faulty variant: exit_statement starts as a text
InitialExitStatementText == "Execution did not finish."

\* faulty variant: exit_statement starts as None
InitialExitStatementNone == None

\* exit_statement = "" (line 427)
InitialExitStatement == ""
\* "No summary provided by end_execution_loop." (line 464)
PLACEHOLDER == "No summary provided by end_execution_loop."

AgentClasses == {"BaseAgent", "OutreachAgent"}

(***************************************************************************)
(* Inputs: user messages and plans.                                        *)
(***************************************************************************)
UserInputs == {"send a two-line greeting", "<medium prompt>", "<huge prompt>"}
Plans == {"<plan>"}

(***************************************************************************)
(* json.loads on the argument texts: <<TRUE, value>> or <<FALSE>> for a    *)
(* JSONDecodeError.  A JSON object is [type |-> "dict", summary |-> s,     *)
(* text |-> its serialisation] with s = <<>> when the key is absent and    *)
(* <<v>> when it is present.                                               *)
(***************************************************************************)
Dict(s, t) == [type |-> "dict", summary |-> s, text |-> t]
JsonNull == [type |-> "null", summary |-> <<>>, text |-> "null"]

json_loads(s) ==
    CASE s = "{summary: done}"    -> <<TRUE, Dict(<<"done">>, s)>>
      [] s = "{summary: partial}" -> <<TRUE, Dict(<<"partial">>, s)>>
      [] s = "{summary: }"        -> <<TRUE, Dict(<<"">>, s)>>
      [] s = "{}"                 -> <<TRUE, Dict(<<>>, s)>>
      [] s = "{text: hi}"         -> <<TRUE, Dict(<<>>, s)>>
      [] s = "{to_addrs: [a], subject: s, body: b}" -> <<TRUE, Dict(<<>>, s)>>
      [] s = "null"               -> <<TRUE, JsonNull>>
      [] OTHER                    -> <<FALSE>>

\* json.dumps(value, indent=2)
json_dumps(v) == v.text

\* arguments.get("summary", "")
GetSummary(v) == IF v.summary = <<>> THEN "" ELSE v.summary[1]

\* the summary argument a call was made with ("" when it has none)
SummaryArgument(v) == IF v.summary = <<>> THEN "" ELSE v.summary[1]

\* Python truthiness of a string
Truthy(s) == s # "" /\ s # None

(***************************************************************************)
(* Turns and the fixed texts of base_agent.py.                             *)
(***************************************************************************)
Sys(c) == [role |-> "system", content |-> c]
User(c) == [role |-> "user", content |-> c]
Assistant(c) == [role |-> "assistant", content |-> c]

BASE_SYSTEM_MESSAGE == <<"BASE_SYSTEM_MESSAGE">>
DELIBERATION_MESSAGE == <<"DELIBERATION_MESSAGE">>
EXECUTION_MESSAGE == <<"EXECUTION_MESSAGE">>
PERSONA == <<"PERSONA">>
TOKEN_WARNING ==
    <<"Warning: The previous response exceeded the token limit. The next response must be shorter.">>
NOCALL_WARNING ==
    <<"Warning: You must call the function 'end_execution_loop' to finalize Execution Stage. ...">>
FORCED_TERMINATION ==
    <<"Execution stopped due to reaching the maximum iteration limit.">>
\* f"Deliberation Plan: {plan_content}"
PlanMessage(p) == <<"Deliberation Plan: ", p>>
\* f"[end_execution_loop] Summary: {exit_statement}"
SummaryMessage(e) == <<"[end_execution_loop] Summary: ", e>>
\* f"Confirmation Needed: This is your attempt {exit_attempts} to end ..."
ConfirmationMessage(n) == <<"Confirmation Needed: This is your attempt ", ToString(n), " to end the Execution Loop. ...">>
\* faulty variant: the turn does not record the arguments
ToolMessageWithoutArguments(name, args, formatted) ==
    <<"Function called: ", name, "\nResult:\n">> \o formatted

\* f"Function called: {function_name}\nArguments passed: {...}\nResult:\n{formatted_result}"
ToolMessage(name, args, formatted) ==
    <<"Function called: ", name, "\nArguments passed: ", json_dumps(args), "\nResult:\n">> \o formatted

(***************************************************************************)
(* The token estimator: tiktoken's count of the concatenated contents,     *)
(* taken as the sum of the counts of the parts of every turn.              *)
(***************************************************************************)
PartTokens(part) ==
    CASE part = "BASE_SYSTEM_MESSAGE"  -> 200
      [] part = "DELIBERATION_MESSAGE" -> 900
      [] part = "EXECUTION_MESSAGE"    -> 600
      [] part = "PERSONA"              -> 250
      [] part = "send a two-line greeting" -> 20
      [] part = "<medium prompt>"      -> 6040
      [] part = "<huge prompt>"        -> 13001
      [] part = "<plan>"               -> 100
      [] part = TOKEN_WARNING[1]       -> 20
      [] part = NOCALL_WARNING[1]      -> 40
      [] part = FORCED_TERMINATION[1]  -> 12
      [] part = ""                     -> 0
      [] Len(part) >= 1000             -> 300
      [] OTHER                         -> 8

RECURSIVE SeqTokens(_)
SeqTokens(c) == IF c = <<>> THEN 0 ELSE PartTokens(Head(c)) + SeqTokens(Tail(c))

RECURSIVE _num_tokens_from_string(_)
\* the estimate of "".join(msg["content"] for msg in messages)
_num_tokens_from_string(messages) ==
    IF messages = <<>> THEN 0
    ELSE SeqTokens(Head(messages).content) + _num_tokens_from_string(Tail(messages))

\* faulty variant: a mistyped ceiling
OverBudgetMistyped(expected_tokens) == expected_tokens > 10 * TOKEN_LIMIT

\* if expected_tokens > 13000 (line 295)
OverBudget(expected_tokens) == expected_tokens > TOKEN_LIMIT

\* while self._token_error_count < max_retries (line 287)
RetryGuard(count) == count < max_retries

\* faulty variant: the exhaustion test is strict
RetriesExhaustedLate(count) == count > max_retries

\* if self._token_error_count >= max_retries: raise (line 315)
RetriesExhausted(count) == count >= max_retries

(***************************************************************************)
(* Tool catalogs (base_agent_tools.json, outreach_tools.json) and the      *)
(* description load_tools_from_json renders from the file it was given.    *)
(***************************************************************************)
BaseToolsFile == <<"end_execution_loop">>
OutreachToolsFile == <<"process_email_and_label">>

RECURSIVE DescribeTools(_)
DescribeTools(ts) ==
    IF ts = <<>> THEN <<>> ELSE <<"Tool: ", Head(ts)>> \o DescribeTools(Tail(ts))

(***************************************************************************)
(* State.                                                                  *)
(***************************************************************************)
VARIABLES
    agentClass,             \* the class of the agent instance
    tools,                  \* self.tools
    tools_description,      \* self.tools_description
    deliberation_messages,  \* self.deliberation_messages
    execution_messages,     \* self.execution_messages
    deliberation_ids,       \* id() of each dict in self.deliberation_messages
    execution_ids,          \* id() of each dict in self.execution_messages
    user_input,             \* self.user_input
    total_tokens,           \* self.total_tokens
    token_error_count,      \* self._token_error_count
    pc,                     \* position of the (single) thread of the agent
    response,               \* the value _call_model returned (NoResponse once
                            \* the loop body has parsed it: it is not read again)
    plan_content,           \* plan_content of process_user_input
    max_iterations,         \* parameter of _execute_plan, the same in every call
    final_checks,           \* parameter of _execute_plan, the same in every call
    iteration_count,        \* local of _execute_plan
    exit_statement,         \* local of _execute_plan
    exit_attempts,          \* local of _execute_plan
    result,                 \* outcome of the last process_user_input
    \* history variables
    modelCalls,             \* _call_model calls made so far
    netRequests,            \* chat.completions.create requests issued so far
    request_tools,          \* the tools argument of the last request issued
    choiceless,             \* responses without choices received so far
    budgetFails,            \* attempts of the current call refused by the guard
    attempts,               \* ValueErrors handled by the current call
    passes,                 \* loop passes of the current invocation
    endCalls,               \* end_execution_loop calls of the current invocation
    dispatches,             \* _handle_specific_tool calls of the current invocation
    discarded,              \* tool calls _parse_tool_call gave up in this invocation
    lastEndArgs,            \* summary argument of the last end_execution_loop call
    accepted,               \* summary argument of the accepted end_execution_loop
    delibStart,             \* Len(deliberation_messages) when invoked
    execStart,              \* Len(execution_messages) when invoked
    invocations,            \* process_user_input invocations so far
    \* the batch driver: the heap and the threads of root_threader.main
    lists,                  \* the list objects created so far, by reference
    instances,              \* the agent objects created so far, by reference
    threadPc,               \* position of each thread in process_slice
    threadAgent,            \* the local `agent` of each thread (0: unbound)
    frames,                 \* the locals of each thread's _execute_plan
    \* the tool-catalog sources on disk
    base_tools_json,        \* what base_agent_tools.json is
    outreach_tools_json,    \* what outreach_tools.json is
    \* the outreach run: the slices, the recipient files and the mailbox
    send_mode,              \* GLOBAL_CONFIG["send_mode"], given to every processor
    processors,             \* begin_index and end_index of each processor started
    recipients_dir,         \* what customer_<i>.json is, by index
    mailbox,                \* the messages of the Gmail account, oldest first
    slice,                  \* position and locals of each process_slice
    handled                 \* history: who read or wrote each recipient file

agent == <<agentClass, tools, tools_description>>
tracks == <<deliberation_messages, execution_messages>>
locals == <<plan_content, max_iterations, final_checks, iteration_count,
            exit_statement, exit_attempts>>
params == <<max_iterations, final_checks>>
loopHist == <<passes, endCalls, dispatches, discarded, lastEndArgs, accepted>>
startHist == <<delibStart, execStart, invocations>>
batch == <<lists, instances, threadPc, threadAgent, frames>>
files == <<base_tools_json, outreach_tools_json>>
outreach == <<send_mode, processors, recipients_dir, mailbox, slice, handled>>
vars == <<agentClass, tools, tools_description, deliberation_messages,
          execution_messages, deliberation_ids, execution_ids, user_input, total_tokens, token_error_count, pc,
          response, plan_content, max_iterations, final_checks,
          iteration_count, exit_statement, exit_attempts, result, modelCalls,
          netRequests, request_tools, choiceless, budgetFails, attempts, passes, endCalls,
          dispatches, discarded, lastEndArgs, accepted, delibStart,
          execStart, invocations, lists, instances, threadPc, threadAgent,
          frames, base_tools_json, outreach_tools_json, send_mode,
          processors, recipients_dir, mailbox, slice, handled>>

\* a response object; isNone marks Python's None in its place
NoResponse == [isNone |-> TRUE, choices |-> <<>>, usage |-> 0]

\* the tools argument of a request: None (given FALSE) or a catalog
NoCatalog == [given |-> FALSE, catalog |-> <<>>]

(***************************************************************************)
(* Construction: BaseAgent.__init__ and OutreachAgent.__init__.            *)
(***************************************************************************)
BaseInitTrack == <<Sys(BASE_SYSTEM_MESSAGE)>>

ConstructedTrack(cls) ==
    IF cls = "OutreachAgent" THEN BaseInitTrack \o <<Sys(PERSONA)>> ELSE BaseInitTrack

ConstructedTools(cls) ==
    IF cls = "OutreachAgent" THEN BaseToolsFile \o OutreachToolsFile ELSE BaseToolsFile

\* load_tools_from_json overwrites the description with that of the last file
ConstructedDescription(cls) ==
    IF cls = "OutreachAgent" THEN DescribeTools(OutreachToolsFile)
    ELSE DescribeTools(BaseToolsFile)

(***************************************************************************)
(* The batch driver: root_threader.main starts one thread per slice.       *)
(***************************************************************************)
MaxThreads == 2

\* faulty variant: the slice of T2 begins where that of T1 begins
ThreadsConfigOverlapping ==
    << [name |-> "T1", begin_index |-> 0, end_index |-> 1],
       [name |-> "T2", begin_index |-> 0, end_index |-> 2],
       [name |-> "T3", begin_index |-> 2, end_index |-> 3],
       [name |-> "T4", begin_index |-> 3, end_index |-> 4],
       [name |-> "T5", begin_index |-> 4, end_index |-> 5] >>

THREADS_CONFIG ==
    << [name |-> "T1", begin_index |-> 0, end_index |-> 1],
       [name |-> "T2", begin_index |-> 1, end_index |-> 2],
       [name |-> "T3", begin_index |-> 2, end_index |-> 3],
       [name |-> "T4", begin_index |-> 3, end_index |-> 4],
       [name |-> "T5", begin_index |-> 4, end_index |-> 5] >>

\* the threads started, by their position in THREADS_CONFIG
Threads == 1..MaxThreads

\* the state of the driver before main starts its threads
BatchStart ==
    [lists |-> <<>>,
     instances |-> <<>>,
     threadPc |-> [t \in Threads |-> "start"],
     threadAgent |-> [t \in Threads |-> 0],
     frames |-> [t \in Threads |-> [iteration_count |-> 0, exit_attempts |-> 0]]]

\* faulty variant: the dict created last is appended once more
NewObjectsReused(allocated, n) == [i \in 1..n |-> allocated]

\* {"role": ..., "content": ...}: every add_*_message call creates a dict of
\* its own (lines 189-196); allocated dicts exist already
NewObjects(allocated, n) == [i \in 1..n |-> allocated + i]

\* the dicts the constructors create, in the order of their creation: the
\* base instruction for each track, then the persona for each track
ConstructedObjects(cls) ==
    LET base == NewObjects(0, 2)
        persona == NewObjects(2, 2)
    IN IF cls = "OutreachAgent"
       THEN [deliberation |-> <<base[1], persona[1]>>,
             execution |-> <<base[2], persona[2]>>]
       ELSE [deliberation |-> <<base[1]>>, execution |-> <<base[2]>>]

\* the dicts behind the turns a step appends: those of the deliberation
\* track are created before those of the execution track
TurnObjects ==
    LET nd == Len(deliberation_messages') - Len(deliberation_messages)
        ne == Len(execution_messages') - Len(execution_messages)
        allocated == Len(deliberation_ids) + Len(execution_ids)
    IN /\ deliberation_ids' = deliberation_ids \o NewObjects(allocated, nd)
       /\ execution_ids' = execution_ids \o NewObjects(allocated + nd, ne)

\* what a catalog source can be: a JSON list of tools, a JSON object with a
\* "tools" key, no file at all, text that is no JSON, or JSON of another
\* structure
FileStates == {"list", "dict", "missing", "undecodable", "wrong_structure"}

\* no processor has been started: root_threader.main has not run
NoOutreach ==
    /\ send_mode = FALSE
    /\ processors = <<>>
    /\ recipients_dir = <<>>
    /\ mailbox = <<>>
    /\ slice = <<>>
    /\ handled = <<>>

\* the state of a run that has not started, the same for every agent
RunStart ==
    /\ user_input = None
    /\ total_tokens = 0
    /\ token_error_count = 0
    /\ response = NoResponse
    /\ plan_content = None
    /\ iteration_count = 0
    /\ exit_statement = InitialExitStatement
    /\ exit_attempts = 0
    /\ result = <<"none">>
    /\ modelCalls = 0
    /\ netRequests = 0
    /\ request_tools = NoCatalog
    /\ choiceless = 0
    /\ budgetFails = 0
    /\ attempts = 0
    /\ passes = 0
    /\ endCalls = 0
    /\ dispatches = 0
    /\ discarded = 0
    /\ lastEndArgs = None
    /\ accepted = None
    /\ delibStart = 0
    /\ execStart = 0
    /\ invocations = 0
    /\ lists = BatchStart.lists
    /\ instances = BatchStart.instances
    /\ threadPc = BatchStart.threadPc
    /\ threadAgent = BatchStart.threadAgent
    /\ frames = BatchStart.frames

\* an agent of either class, constructed with both catalog sources in place
Init ==
    /\ agentClass \in AgentClasses
    /\ base_tools_json = "list"
    /\ outreach_tools_json = "list"
    /\ tools = ConstructedTools(agentClass)
    /\ tools_description = ConstructedDescription(agentClass)
    /\ deliberation_messages = ConstructedTrack(agentClass)
    /\ execution_messages = ConstructedTrack(agentClass)
    /\ deliberation_ids = ConstructedObjects(agentClass).deliberation
    /\ execution_ids = ConstructedObjects(agentClass).execution
    /\ pc = "idle"
    /\ max_iterations \in 1..MaxIterations
    /\ final_checks \in 0..MaxFinalChecks
    /\ RunStart
    /\ NoOutreach

(***************************************************************************)
(* What the model-serving API can answer.                                  *)
(***************************************************************************)
Message(content, calls) == [content |-> content, tool_calls |-> calls]
ToolCall(name, arguments) == [name |-> name, arguments |-> arguments]
Response(choices) == [isNone |-> FALSE, choices |-> choices, usage |-> 10]

EndCalls ==
    { ToolCall("end_execution_loop", a) :
        a \in {"{summary: done}", "{summary: partial}", "{summary: }", "{}",
               "null", "{summary: do"} }
OtherCalls ==
    { ToolCall("foo", "{text: hi}"),
      ToolCall("process_email_and_label", "{to_addrs: [a"),
      ToolCall("process_email_and_label", "{to_addrs: [a], subject: s, body: b}"),
      ToolCall("process_email_and_label", "null") }
CallLists ==
    { <<c>> : c \in EndCalls \cup OtherCalls }
    \cup { <<ToolCall("foo", "{text: hi}"), ToolCall("end_execution_loop", "{summary: done}")>>,
           <<ToolCall("end_execution_loop", "{summary: partial}"), ToolCall("foo", "{text: hi}")>> }

\* tools=None: the model can only answer with text
DeliberationResponses == { Response(<<Message(p, <<>>)>>) : p \in Plans }
ExecutionResponses ==
    { Response(<<Message("<forecast>", <<>>)>>) }
    \cup { Response(<<Message(None, cl)>>) : cl \in CallLists }
ChoicelessResponse == Response(<<>>)

\* the use_tools argument of the _call_model that is running:
\* False in _enforce_deliberation_stage (line 395), the default True in
\* _execute_plan (line 438)
UseTools == pc = "exec_call"

\* faulty variant: the catalog is sent whatever use_tools says
RequestToolsAlways(use_tools) == [given |-> TRUE, catalog |-> tools]

\* tools = self.tools if use_tools else None (line 289)
RequestTools(use_tools) ==
    IF use_tools THEN [given |-> TRUE, catalog |-> tools] ELSE NoCatalog

\* the answers to a request: tool calls only when a catalog was sent
Completions(request) ==
    IF request.given THEN ExecutionResponses ELSE DeliberationResponses

(***************************************************************************)
(* _parse_tool_call: <<function_name, arguments>>, <<None, None>> for the  *)
(* no-call pair.                                                           *)
(***************************************************************************)
NoCallPair == <<None, JsonNull>>

\* faulty variant: the last tool call of the response is taken
PickLastToolCall(tool_calls) == tool_calls[Len(tool_calls)]

\* tool_call = tool_calls[0] (line 347)
PickToolCall(tool_calls) == tool_calls[1]

\* the message of the response carries tool calls (line 343)
HasToolCall(r) == r.choices # <<>> /\ r.choices[1].tool_calls # <<>>

\* faulty variant: a call whose arguments do not parse keeps its name
ParseToolCallKeepsName(r) ==
    IF ~HasToolCall(r) THEN NoCallPair
    ELSE LET tool_call == PickToolCall(r.choices[1].tool_calls)
             parsed == json_loads(tool_call.arguments)
         IN IF parsed[1] THEN <<tool_call.name, parsed[2]>>
            ELSE <<tool_call.name, JsonNull>>

_parse_tool_call(r) ==
    IF r.choices = <<>> THEN NoCallPair
    ELSE IF r.choices[1].tool_calls = <<>> THEN NoCallPair
    ELSE LET tool_call == PickToolCall(r.choices[1].tool_calls)
             parsed == json_loads(tool_call.arguments)
         IN IF parsed[1] THEN <<tool_call.name, parsed[2]>> ELSE NoCallPair

\* if not function_name (line 445)
NoFunctionName(function_name) == function_name = None \/ function_name = ""

(***************************************************************************)
(* _handle_specific_tool: the set of outcomes <<"return", payload>> or     *)
(* <<"raise", error>>; a payload is the tuple of the parts of its JSON     *)
(* serialisation.                                                          *)
(***************************************************************************)
NonePayload == <<"null">>

RECURSIVE Repeat(_, _)
Repeat(s, n) == IF n = 0 THEN "" ELSE s \o Repeat(s, n - 1)

\* str(e) of an exception of the mail client with a long message, as
\* process_email_and_label returns it in {"error": str(e)}: 1200 characters
LongClientError == Repeat("IMAP4 abort", 100) \o Repeat("0123456789", 10)

OutreachEmailOutcomes(arguments) ==
    IF arguments.type # "dict" THEN { <<"raise", "AttributeError">> }
    ELSE IF arguments.text # "{to_addrs: [a], subject: s, body: b}"
    THEN { <<"return", <<"{error: process_email_and_label aborted: 'to_addrs', 'subject', and 'body' are all required parameters.}">>>> }
    ELSE { <<"return", <<"{status: Draft saved and labeled successfully.}">>>>,
           <<"return", <<"{error: Failed to save draft.}">>>>,
           <<"return", <<"{error: ", LongClientError, "}">>>> }

\* faulty variant: the dispatcher of the subclass fails on a name it does
\* not know
HandleSpecificToolStrict(cls, function_name, arguments) ==
    IF cls = "OutreachAgent"
    THEN IF function_name = "process_email_and_label"
         THEN OutreachEmailOutcomes(arguments)
         ELSE { <<"raise", "KeyError">> }
    ELSE { <<"return", NonePayload>> }

\* faulty variant: the default hook refuses to handle anything
HandleSpecificToolAbstract(cls, function_name, arguments) ==
    IF cls = "OutreachAgent"
    THEN IF function_name = "process_email_and_label"
         THEN OutreachEmailOutcomes(arguments)
         ELSE { <<"return", <<"{error: Tool ", function_name, " not recognized by OutreachAgent.}">>>> }
    ELSE { <<"raise", "NotImplementedError">> }

\* BaseAgent._handle_specific_tool returns None for every name (lines
\* 559-565); OutreachAgent's dispatcher knows one name (lines 75-86)
_handle_specific_tool(cls, function_name, arguments) ==
    IF cls = "OutreachAgent"
    THEN IF function_name = "process_email_and_label"
         THEN OutreachEmailOutcomes(arguments)
         ELSE { <<"return", <<"{error: Tool ", function_name, " not recognized by OutreachAgent.}">>>> }
    ELSE { <<"return", NonePayload>> }

RECURSIVE Serialized(_)
\* json.dumps(tool_result, indent=indent): the text the parts of the
\* payload spell out
Serialized(payload) ==
    IF payload = <<>> THEN "" ELSE Head(payload) \o Serialized(Tail(payload))

\* len(formatted_result)
SerializedLength(payload) == Len(Serialized(payload))

\* faulty variant: the marker is added but the text is not cut
FormatToolResultUncut(payload) ==
    IF SerializedLength(payload) > max_length
    THEN payload \o <<"... [truncated]">>
    ELSE payload

\* formatted_result[:max_length] + "... [truncated]" when the text is
\* longer than max_length (lines 547-550), the text itself otherwise
_format_tool_result(payload) ==
    IF SerializedLength(payload) > max_length
    THEN <<SubSeq(Serialized(payload), 1, max_length), "... [truncated]">>
    ELSE payload

(***************************************************************************)
(* Helpers of the actions.                                                 *)
(***************************************************************************)
Raise(e) == pc' = "idle" /\ result' = <<"raised", e>>

\* except Exception as e: raise(e) around the loop body (lines 505-506);
\* the statements after the raise are never reached
IterationExcept(e) ==
    /\ Raise(e)
    /\ UNCHANGED <<execution_messages, iteration_count>>

CallPcs == {"delib_call", "exec_call"}
CallTrack == IF pc = "delib_call" THEN deliberation_messages ELSE execution_messages

\* faulty variant: the warning is added as a user turn
WarningTurnsAsUser == <<User(TOKEN_WARNING)>>

\* self.add_system_message(messages, warning_message) on the track of the call
WarningTurns == <<Sys(TOKEN_WARNING)>>

\* faulty variant: the warning overwrites the last turn of the track
WarningReplacesLast(turns) ==
    IF pc = "delib_call"
    THEN /\ deliberation_messages' =
               SubSeq(deliberation_messages, 1, Len(deliberation_messages) - 1) \o turns
         /\ UNCHANGED execution_messages
    ELSE /\ execution_messages' =
               SubSeq(execution_messages, 1, Len(execution_messages) - 1) \o turns
         /\ UNCHANGED deliberation_messages

\* faulty variant: the track is cut back to its first turn to make room
\* before the warning is added
WarningShortensTrack(turns) ==
    IF pc = "delib_call"
    THEN /\ deliberation_messages' = SubSeq(deliberation_messages, 1, 1) \o turns
         /\ UNCHANGED execution_messages
    ELSE /\ execution_messages' = SubSeq(execution_messages, 1, 1) \o turns
         /\ UNCHANGED deliberation_messages

\* faulty variant: the warning always goes to the deliberation track
WarningToDeliberation(turns) ==
    /\ deliberation_messages' = deliberation_messages \o turns
    /\ UNCHANGED execution_messages

AppendToCallTrack(turns) ==
    IF pc = "delib_call"
    THEN /\ deliberation_messages' = deliberation_messages \o turns
         /\ UNCHANGED execution_messages
    ELSE /\ execution_messages' = execution_messages \o turns
         /\ UNCHANGED deliberation_messages

\* except ValueError as e (lines 313-324)
HandleValueError ==
    /\ token_error_count' = token_error_count + 1
    /\ attempts' = attempts + 1
    /\ IF RetriesExhausted(token_error_count + 1)
       THEN /\ Raise("ValueError: Repeated token limit errors. Unable to proceed.")
            /\ UNCHANGED tracks
       ELSE /\ AppendToCallTrack(WarningTurns)
            /\ UNCHANGED <<pc, result>>

(***************************************************************************)
(* process_user_input, up to the model call of the deliberation stage.     *)
(***************************************************************************)
Invoke(u) ==
    /\ pc = "idle"
    /\ modelCalls + 1 + max_iterations <= MaxModelCalls
    /\ user_input' = u
    /\ deliberation_messages' = deliberation_messages \o
          <<Sys(DELIBERATION_MESSAGE), User(<<u>>), Sys(tools_description)>>
    /\ plan_content' = None
    /\ iteration_count' = 0
    /\ exit_statement' = InitialExitStatement
    /\ exit_attempts' = 0
    /\ response' = NoResponse
    /\ result' = <<"none">>
    /\ pc' = "delib_call"
    /\ modelCalls' = modelCalls + 1
    /\ budgetFails' = 0
    /\ attempts' = 0
    /\ passes' = 0
    /\ endCalls' = 0
    /\ dispatches' = 0
    /\ discarded' = 0
    /\ lastEndArgs' = None
    /\ accepted' = None
    /\ delibStart' = Len(deliberation_messages)
    /\ execStart' = Len(execution_messages)
    /\ invocations' = invocations + 1
    /\ UNCHANGED <<outreach, files, batch, agent, params, execution_messages, total_tokens,
                   token_error_count, netRequests, request_tools, choiceless>>
    /\ TurnObjects

(***************************************************************************)
(* _call_model, one action per way an attempt can go.                      *)
(***************************************************************************)
\* the while condition is false on entry: the function falls off its end
CallModelReturnsNone ==
    /\ pc \in CallPcs
    /\ ~RetryGuard(token_error_count)
    /\ response' = NoResponse
    /\ pc' = IF pc = "delib_call" THEN "delib_got" ELSE "exec_got"
    /\ UNCHANGED <<outreach, files, batch, agent, tracks, user_input, total_tokens, token_error_count,
                   locals, result, modelCalls, netRequests, request_tools, choiceless,
                   budgetFails, attempts, loopHist, startHist>>
    /\ TurnObjects

\* the pre-flight guard trips: no request, the ValueError is handled
CallModelOverBudget ==
    /\ pc \in CallPcs
    /\ RetryGuard(token_error_count)
    /\ OverBudget(_num_tokens_from_string(CallTrack))
    /\ HandleValueError
    /\ budgetFails' = budgetFails + 1
    /\ UNCHANGED <<outreach, files, batch, agent, user_input, total_tokens, response, locals,
                   modelCalls, netRequests, request_tools, choiceless, loopHist, startHist>>
    /\ TurnObjects

\* the request is issued and answered with a choice
CallModelSuccess ==
    /\ pc \in CallPcs
    /\ RetryGuard(token_error_count)
    /\ ~OverBudget(_num_tokens_from_string(CallTrack))
    /\ \E r \in Completions(RequestTools(UseTools)) :
          /\ response' = r
          /\ total_tokens' = total_tokens + r.usage
    /\ netRequests' = netRequests + 1
    /\ request_tools' = RequestTools(UseTools)
    /\ token_error_count' = 0
    /\ pc' = IF pc = "delib_call" THEN "delib_got" ELSE "exec_got"
    /\ UNCHANGED <<outreach, files, batch, agent, tracks, user_input, locals, result, modelCalls,
                   choiceless, budgetFails, attempts, loopHist, startHist>>
    /\ TurnObjects

\* the request is answered without choices: extract_response_content raises
\* ValueError inside the try block (line 306), which the handler catches
CallModelChoiceless ==
    /\ pc \in CallPcs
    /\ RetryGuard(token_error_count)
    /\ ~OverBudget(_num_tokens_from_string(CallTrack))
    /\ choiceless < MaxChoiceless
    /\ choiceless' = choiceless + 1
    /\ netRequests' = netRequests + 1
    /\ request_tools' = RequestTools(UseTools)
    /\ HandleValueError
    /\ UNCHANGED <<outreach, files, batch, agent, user_input, total_tokens, response, locals,
                   modelCalls, budgetFails, loopHist, startHist>>
    /\ TurnObjects

\* the request fails with an exception of the client, which is not caught
CallModelNetworkError ==
    /\ pc \in CallPcs
    /\ RetryGuard(token_error_count)
    /\ ~OverBudget(_num_tokens_from_string(CallTrack))
    /\ netRequests' = netRequests + 1
    /\ request_tools' = RequestTools(UseTools)
    /\ IF pc = "exec_call"
       THEN IterationExcept("APIError")
       ELSE Raise("APIError") /\ UNCHANGED <<execution_messages, iteration_count>>
    /\ UNCHANGED <<outreach, files, batch, agent, deliberation_messages, user_input, total_tokens,
                   token_error_count, response, plan_content, params,
                   exit_statement, exit_attempts, modelCalls, choiceless,
                   budgetFails, attempts, loopHist, startHist>>
    /\ TurnObjects

(***************************************************************************)
(* The rest of the deliberation stage, then process_user_input line 372    *)
(* and the head of _execute_plan (lines 416-428).                          *)
(***************************************************************************)
\* faulty variant: the turns of the deliberation stage are handed over
\* instead of the plan string
ExecutionPreludeCopiesTrack(u, plan) ==
    <<User(<<u>>), Sys(EXECUTION_MESSAGE), User(<<u>>)>>
    \o SubSeq(deliberation_messages, delibStart + 1, Len(deliberation_messages))

\* the turns the execution track gets before the loop starts
ExecutionPrelude(u, plan) ==
    <<User(<<u>>), Sys(EXECUTION_MESSAGE), User(<<u>>), Sys(PlanMessage(plan))>>

\* The caller of _call_model cannot use what it got: extract_response_content
\* (line 397) raises ValueError on None or on a response without choices,
\* _parse_tool_call (line 439) raises AttributeError on None.
ResponseUnusable ==
    /\ \/ /\ pc = "delib_got"
          /\ (response.isNone \/ response.choices = <<>>)
          /\ Raise("ValueError: Invalid response object format")
          /\ UNCHANGED <<execution_messages, iteration_count>>
       \/ /\ pc = "exec_got"
          /\ response.isNone
          /\ IterationExcept("AttributeError")
    /\ UNCHANGED <<outreach, files, batch, agent, deliberation_messages, user_input, total_tokens,
                   token_error_count, response, plan_content, params,
                   exit_statement, exit_attempts, modelCalls, netRequests, request_tools,
                   choiceless, budgetFails, attempts, loopHist, startHist>>
    /\ TurnObjects

\* the end of _enforce_deliberation_stage (lines 397-402)
DeliberationDone ==
    /\ pc = "delib_got"
    /\ ~response.isNone /\ response.choices # <<>>
    /\ LET plan == response.choices[1].content IN
         /\ plan_content' = plan
         /\ deliberation_messages' = Append(deliberation_messages, Assistant(<<plan>>))
    /\ pc' = "exec_start"
    /\ UNCHANGED <<outreach, files, batch, agent, execution_messages, user_input, total_tokens,
                   token_error_count, response, params, iteration_count,
                   exit_statement, exit_attempts, result, modelCalls,
                   netRequests, request_tools, choiceless, budgetFails, attempts, loopHist,
                   startHist>>
    /\ TurnObjects

\* process_user_input line 372 and the head of _execute_plan (lines 416-428)
ExecutionStart ==
    /\ pc = "exec_start"
    /\ execution_messages' = execution_messages \o ExecutionPrelude(user_input, plan_content)
    /\ iteration_count' = 0
    /\ exit_statement' = InitialExitStatement
    /\ exit_attempts' = 0
    /\ pc' = "exec_test"
    /\ UNCHANGED <<outreach, files, batch, agent, deliberation_messages, user_input, total_tokens,
                   token_error_count, response, plan_content, params, result,
                   modelCalls, netRequests, request_tools, choiceless, budgetFails, attempts,
                   loopHist, startHist>>
    /\ TurnObjects

(***************************************************************************)
(* The execution loop of _execute_plan.                                    *)
(***************************************************************************)
\* faulty variant: the loop runs while the count has not passed the limit
\* by more than one
LoopGuardLate(count, limit) == count < limit + 2

\* faulty variant: the loop guard is off by one
LoopGuardOffByOne(count, limit) == count <= limit

\* while iteration_count < max_iterations (line 430)
LoopGuard(count, limit) == count < limit

LoopEnter ==
    /\ pc = "exec_test"
    /\ LoopGuard(iteration_count, max_iterations)
    /\ pc' = "exec_call"
    /\ modelCalls' = modelCalls + 1
    /\ passes' = passes + 1
    /\ budgetFails' = 0
    /\ attempts' = 0
    /\ UNCHANGED <<outreach, files, batch, agent, tracks, user_input, total_tokens, token_error_count,
                   response, locals, result, netRequests, request_tools, choiceless, endCalls,
                   dispatches, discarded, lastEndArgs, accepted, startHist>>
    /\ TurnObjects

LoopLeave ==
    /\ pc = "exec_test"
    /\ ~LoopGuard(iteration_count, max_iterations)
    /\ pc' = "exec_exit"
    /\ UNCHANGED <<outreach, files, batch, agent, tracks, user_input, total_tokens, token_error_count,
                   response, locals, result, modelCalls, netRequests, request_tools,
                   choiceless, budgetFails, attempts, loopHist, startHist>>
    /\ TurnObjects

ParsedName == _parse_tool_call(response)[1]
ParsedArguments == _parse_tool_call(response)[2]

\* faulty variant: the warning is not recorded
NoCallTurnsMissing == <<>>

\* the turns appended for a response without a tool call (line 453)
NoCallTurns == <<Sys(NOCALL_WARNING)>>

\* lines 445-455
ExecNoCall ==
    /\ pc = "exec_got"
    /\ ~response.isNone
    /\ NoFunctionName(ParsedName)
    /\ execution_messages' = execution_messages \o NoCallTurns
    /\ iteration_count' = iteration_count + 1
    /\ pc' = "exec_test"
    /\ discarded' = IF HasToolCall(response) THEN discarded + 1 ELSE discarded
    /\ response' = NoResponse
    /\ UNCHANGED <<outreach, files, batch, agent, deliberation_messages, user_input, total_tokens,
                   token_error_count, plan_content, params,
                   exit_statement, exit_attempts, result, modelCalls,
                   netRequests, request_tools, choiceless, budgetFails, attempts, passes,
                   endCalls, dispatches, lastEndArgs, accepted, startHist>>
    /\ TurnObjects

\* faulty variant: a summary once given is never replaced
ExitStatementKeepsFirst(old, arguments) ==
    IF old # "" THEN old
    ELSE IF Truthy(GetSummary(arguments)) THEN GetSummary(arguments) ELSE PLACEHOLDER

\* faulty variant: no fallback for an empty summary
ExitStatementNoFallback(old, arguments) == GetSummary(arguments)

\* exit_statement = arguments.get("summary", ""); placeholder if falsy
\* (lines 461-464); old is the value exit_statement held before
ExitStatementOf(old, arguments) ==
    IF Truthy(GetSummary(arguments)) THEN GetSummary(arguments) ELSE PLACEHOLDER

\* faulty variant: one confirmation too many
NeedsConfirmationOffByOne(exit_attempts_, final_checks_) == exit_attempts_ <= final_checks_

\* faulty variant: a confirmation is asked for every time
NeedsConfirmationAlways(exit_attempts_, final_checks_) == TRUE

\* if exit_attempts < final_checks (line 472)
NeedsConfirmation(exit_attempts_, final_checks_) == exit_attempts_ < final_checks_

\* arguments.get on a value that is no dict (line 461)
ExecEndCallRaises ==
    /\ pc = "exec_got"
    /\ ~response.isNone
    /\ ParsedName = "end_execution_loop"
    /\ ParsedArguments.type # "dict"
    /\ IterationExcept("AttributeError")
    /\ UNCHANGED <<outreach, files, batch, agent, deliberation_messages, user_input, total_tokens,
                   token_error_count, response, plan_content, params,
                   exit_statement, exit_attempts, modelCalls, netRequests, request_tools,
                   choiceless, budgetFails, attempts, loopHist, startHist>>
    /\ TurnObjects

\* lines 457-486
ExecEndCall ==
    /\ pc = "exec_got"
    /\ ~response.isNone
    /\ ParsedName = "end_execution_loop"
    /\ ParsedArguments.type = "dict"
    /\ LET statement == ExitStatementOf(exit_statement, ParsedArguments) IN
         /\ exit_statement' = statement
         /\ IF NeedsConfirmation(exit_attempts, final_checks)
            THEN /\ execution_messages' = execution_messages \o
                       <<Assistant(SummaryMessage(statement)),
                         Sys(ConfirmationMessage(exit_attempts))>>
                 /\ exit_attempts' = exit_attempts + 1
                 /\ iteration_count' = iteration_count + 1
                 /\ pc' = "exec_test"
                 /\ UNCHANGED accepted
            ELSE /\ execution_messages' = execution_messages \o
                       <<Assistant(SummaryMessage(statement))>>
                 /\ pc' = "exec_exit"
                 /\ accepted' = SummaryArgument(ParsedArguments)
                 /\ UNCHANGED <<exit_attempts, iteration_count>>
    /\ endCalls' = endCalls + 1
    /\ lastEndArgs' = SummaryArgument(ParsedArguments)
    /\ response' = NoResponse
    /\ UNCHANGED <<outreach, files, batch, agent, deliberation_messages, user_input, total_tokens,
                   token_error_count, plan_content, params, result,
                   modelCalls, netRequests, request_tools, choiceless, budgetFails, attempts,
                   passes, dispatches, discarded, startHist>>
    /\ TurnObjects

\* lines 488-503 and 513
ExecToolCall ==
    /\ pc = "exec_got"
    /\ ~response.isNone
    /\ ~NoFunctionName(ParsedName)
    /\ ParsedName # "end_execution_loop"
    /\ dispatches' = dispatches + 1
    /\ \E outcome \in _handle_specific_tool(agentClass, ParsedName, ParsedArguments) :
          IF outcome[1] = "raise"
          THEN IterationExcept(outcome[2])
          ELSE /\ execution_messages' = Append(execution_messages,
                      Sys(ToolMessage(ParsedName, ParsedArguments,
                                      _format_tool_result(outcome[2]))))
               /\ iteration_count' = iteration_count + 1
               /\ pc' = "exec_test"
               /\ UNCHANGED result
    /\ response' = NoResponse
    /\ UNCHANGED <<outreach, files, batch, agent, deliberation_messages, user_input, total_tokens,
                   token_error_count, plan_content, params,
                   exit_statement, exit_attempts, modelCalls, netRequests, request_tools,
                   choiceless, budgetFails, attempts, passes, endCalls,
                   discarded, lastEndArgs, accepted, startHist>>
    /\ TurnObjects

\* faulty variant: the ceiling test is strict
CeilingReachedStrict(count, limit) == count > limit

\* if iteration_count >= max_iterations (line 516)
CeilingReached(count, limit) == count >= limit

\* lines 516-525, and the return of process_user_input (line 375)
ExecReturn ==
    /\ pc = "exec_exit"
    /\ IF CeilingReached(iteration_count, max_iterations)
       THEN execution_messages' = Append(execution_messages, Sys(FORCED_TERMINATION))
       ELSE UNCHANGED execution_messages
    /\ result' = <<"returned", exit_statement>>
    /\ pc' = "idle"
    /\ UNCHANGED <<outreach, files, batch, agent, deliberation_messages, user_input, total_tokens,
                   token_error_count, response, locals, modelCalls,
                   netRequests, request_tools, choiceless, budgetFails, attempts, loopHist,
                   startHist>>
    /\ TurnObjects

(***************************************************************************)
(* Specifications.                                                         *)
(***************************************************************************)
InvokeSome == \E u \in UserInputs : Invoke(u)

\* the steps of a running invocation
Run ==
    \/ CallModelReturnsNone
    \/ CallModelOverBudget
    \/ CallModelSuccess
    \/ CallModelChoiceless
    \/ CallModelNetworkError
    \/ ResponseUnusable
    \/ DeliberationDone
    \/ ExecutionStart
    \/ LoopEnter
    \/ LoopLeave
    \/ ExecNoCall
    \/ ExecEndCallRaises
    \/ ExecEndCall
    \/ ExecToolCall
    \/ ExecReturn

Next == InvokeSome \/ Run

Spec == Init /\ [][Next]_vars

\* every call the thread makes returns, so a running invocation takes its
\* next step
FairSpec == Spec /\ WF_vars(Run)

(***************************************************************************)
(* The threads of the batch driver.  Each thread runs process_slice on its *)
(* slice: it builds an OutreachAgent and calls process_user_input on it.   *)
(* The heap holds the list objects and the agent objects; a turn carries   *)
(* the thread that created it.                                             *)
(***************************************************************************)
\* the variables of the single agent of Spec, which the threads do not touch
single == <<agentClass, tools, tools_description, deliberation_messages,
            execution_messages, deliberation_ids, execution_ids, user_input,
            total_tokens, token_error_count, pc, response, plan_content,
            max_iterations, final_checks, iteration_count, exit_statement,
            exit_attempts, result, modelCalls, netRequests, request_tools, choiceless,
            budgetFails, attempts, passes, endCalls, dispatches, discarded,
            lastEndArgs, accepted, delibStart, execStart, invocations>>

\* a turn created by thread t
TurnBy(t, turn) == [role |-> turn.role, content |-> turn.content, by |-> t]

\* faulty variant: the tracks are lists of the class, one for all instances
SharedListRef(heap) == 1

\* self.deliberation_messages = [] (lines 156-157): a list of its own
NewListRef(heap) == Len(heap) + 1

\* binds the reference to an empty list
StoreEmptyList(heap, ref) ==
    IF ref = Len(heap) + 1 THEN Append(heap, <<>>) ELSE [heap EXCEPT ![ref] = <<>>]

\* stage_messages.append(turn) on the list behind the reference
AppendTo(heap, ref, turns) == [heap EXCEPT ![ref] = heap[ref] \o turns]

\* the agent object of thread t
AgentOf(t) == instances[threadAgent[t]]

\* agent = OutreachAgent(...) (lines 89-94)
BatchConstruct(t) ==
    /\ threadPc[t] = "start"
    /\ LET d == NewListRef(lists)
           heap1 == StoreEmptyList(lists, d)
           e == NewListRef(heap1)
           heap2 == StoreEmptyList(heap1, e)
           heap3 == AppendTo(heap2, d, <<TurnBy(t, Sys(BASE_SYSTEM_MESSAGE))>>)
           heap4 == AppendTo(heap3, e, <<TurnBy(t, Sys(BASE_SYSTEM_MESSAGE))>>)
           heap5 == AppendTo(heap4, d, <<TurnBy(t, Sys(PERSONA))>>)
           heap6 == AppendTo(heap5, e, <<TurnBy(t, Sys(PERSONA))>>)
       IN /\ lists' = heap6
          /\ instances' = Append(instances,
                [deliberation_messages |-> d, execution_messages |-> e,
                 token_error_count |-> 0])
    /\ threadAgent' = [threadAgent EXCEPT ![t] = Len(instances) + 1]
    /\ threadPc' = [threadPc EXCEPT ![t] = "constructed"]
    /\ UNCHANGED <<outreach, files, single, frames>>

\* prompt.replace("{Insert JSON Here}", str(recipient)) (line 86): the
\* prompt u with the record of the recipient of thread t
PersonalizedPrompt(t, u) == <<u, THREADS_CONFIG[t].name>>

\* the estimate of the next execution-stage call of thread t is too high
BatchOverBudget(t) ==
    OverBudget(_num_tokens_from_string(lists[AgentOf(t).execution_messages]))

\* final_response = agent.process_user_input(...) (line 96), up to the
\* execution loop
BatchDeliberate(t) ==
    /\ threadPc[t] = "constructed"
    /\ \E u \in {"send a two-line greeting", "<medium prompt>"} :
       LET a == AgentOf(t)
           PromptOf(th) == PersonalizedPrompt(th, u)
           heap1 == AppendTo(lists, a.deliberation_messages,
                       << TurnBy(t, Sys(DELIBERATION_MESSAGE)),
                          TurnBy(t, User(PromptOf(t))),
                          TurnBy(t, Sys(ConstructedDescription("OutreachAgent"))),
                          TurnBy(t, Assistant(<<"<plan>">>)) >>)
       IN lists' = AppendTo(heap1, a.execution_messages,
                       << TurnBy(t, User(PromptOf(t))),
                          TurnBy(t, Sys(EXECUTION_MESSAGE)),
                          TurnBy(t, User(PromptOf(t))),
                          TurnBy(t, Sys(PlanMessage("<plan>"))) >>)
    /\ frames' = [frames EXCEPT ![t] = [iteration_count |-> 0, exit_attempts |-> 0]]
    /\ threadPc' = [threadPc EXCEPT ![t] = "executing"]
    /\ UNCHANGED <<outreach, files, single, instances, threadAgent>>

\* a refused attempt of an execution-stage call: the counter of the agent
\* goes up, and the warning is appended or the fatal error is raised, which
\* process_slice logs (lines 110-111)
BatchBudgetFailure(t) ==
    /\ threadPc[t] = "executing"
    /\ LoopGuard(frames[t].iteration_count, MaxIterations)
    /\ RetryGuard(AgentOf(t).token_error_count)
    /\ BatchOverBudget(t)
    /\ instances' = [instances EXCEPT ![threadAgent[t]].token_error_count = @ + 1]
    /\ IF RetriesExhausted(AgentOf(t).token_error_count + 1)
       THEN /\ threadPc' = [threadPc EXCEPT ![t] = "done"]
            /\ UNCHANGED lists
       ELSE /\ lists' = AppendTo(lists, AgentOf(t).execution_messages,
                           <<TurnBy(t, Sys(TOKEN_WARNING))>>)
            /\ UNCHANGED threadPc
    /\ UNCHANGED <<outreach, files, single, threadAgent, frames>>

\* a loop pass that records a tool result
BatchIterate(t) ==
    /\ threadPc[t] = "executing"
    /\ LoopGuard(frames[t].iteration_count, MaxIterations)
    /\ ~BatchOverBudget(t)
    /\ instances' = [instances EXCEPT ![threadAgent[t]].token_error_count = 0]
    /\ lists' = AppendTo(lists, AgentOf(t).execution_messages,
          <<TurnBy(t, Sys(ToolMessage("process_email_and_label",
                Dict(<<>>, "{to_addrs: [a], subject: s, body: b}"),
                <<"{status: Draft saved and labeled successfully.}">>)))>>)
    /\ frames' = [frames EXCEPT ![t].iteration_count = @ + 1]
    /\ UNCHANGED <<outreach, files, single, threadPc, threadAgent>>

\* the loop ends, by an accepted end_execution_loop or at the ceiling, and
\* process_user_input returns to process_slice
BatchFinish(t) ==
    /\ threadPc[t] = "executing"
    /\ LoopGuard(frames[t].iteration_count, MaxIterations) => ~BatchOverBudget(t)
    /\ lists' = AppendTo(lists, AgentOf(t).execution_messages,
          IF LoopGuard(frames[t].iteration_count, MaxIterations)
          THEN <<TurnBy(t, Assistant(SummaryMessage("done")))>>
          ELSE <<TurnBy(t, Sys(FORCED_TERMINATION))>>)
    /\ threadPc' = [threadPc EXCEPT ![t] = "done"]
    /\ UNCHANGED <<outreach, files, single, instances, threadAgent, frames>>

BatchInit ==
    /\ Init
    /\ agentClass = "OutreachAgent"
    /\ max_iterations = 1
    /\ final_checks = 0

BatchNext ==
    \E t \in Threads :
        \/ BatchConstruct(t)
        \/ BatchDeliberate(t)
        \/ BatchBudgetFailure(t)
        \/ BatchIterate(t)
        \/ BatchFinish(t)

BatchSpec == BatchInit /\ [][BatchNext]_vars

(***************************************************************************)
(* Construction, step by step and for every state of the two catalog       *)
(* sources: BaseAgent.__init__, then the rest of OutreachAgent.__init__.   *)
(***************************************************************************)
\* load_tools_from_json (lines 201-251) on a source in the given state that
\* holds the given tools when it is well-formed: the exception that leaves
\* the method (None if none does) and the catalog it leaves behind
load_tools_from_json(state, contents, tools_, tools_description_) ==
    CASE state = "missing" ->
            [raised |-> "FileNotFoundError", tools |-> tools_,
             tools_description |-> tools_description_]
      [] state \in {"undecodable", "wrong_structure"} ->
            [raised |-> None, tools |-> tools_,
             tools_description |-> tools_description_]
      [] OTHER ->
            [raised |-> None, tools |-> tools_ \o contents,
             tools_description |-> DescribeTools(contents)]

\* BaseAgent.__init__ up to the end of its try statement (lines 152-180):
\* whatever load_tools_from_json raises is logged
BaseLoadTools ==
    /\ pc = "new"
    /\ LET loaded == load_tools_from_json(base_tools_json, BaseToolsFile, <<>>, <<>>) IN
         /\ tools' = loaded.tools
         /\ tools_description' = loaded.tools_description
    /\ pc' = "base_loaded"
    /\ UNCHANGED <<outreach, files, batch, agentClass, tracks, user_input, total_tokens,
                   token_error_count, response, locals, result, modelCalls,
                   netRequests, request_tools, choiceless, budgetFails, attempts, loopHist,
                   startHist>>
    /\ TurnObjects

\* lines 182-184; the construction of a BaseAgent is complete
BaseAddMessages ==
    /\ pc = "base_loaded"
    /\ deliberation_messages' = deliberation_messages \o BaseInitTrack
    /\ execution_messages' = execution_messages \o BaseInitTrack
    /\ pc' = IF agentClass = "OutreachAgent" THEN "outreach_persona" ELSE "idle"
    /\ UNCHANGED <<outreach, files, batch, agent, user_input, total_tokens,
                   token_error_count, response, locals, result, modelCalls,
                   netRequests, request_tools, choiceless, budgetFails, attempts, loopHist,
                   startHist>>
    /\ TurnObjects

\* OutreachAgent.__init__ lines 58-60
OutreachAddPersona ==
    /\ pc = "outreach_persona"
    /\ deliberation_messages' = Append(deliberation_messages, Sys(PERSONA))
    /\ execution_messages' = Append(execution_messages, Sys(PERSONA))
    /\ pc' = "outreach_load"
    /\ UNCHANGED <<outreach, files, batch, agent, user_input, total_tokens,
                   token_error_count, response, locals, result, modelCalls,
                   netRequests, request_tools, choiceless, budgetFails, attempts, loopHist,
                   startHist>>
    /\ TurnObjects

\* OutreachAgent.__init__ lines 62-70: load_tools_from_json is called
\* outside any try statement, so what it raises leaves the constructor
OutreachLoadTools ==
    /\ pc = "outreach_load"
    /\ LET loaded == load_tools_from_json(outreach_tools_json, OutreachToolsFile,
                                          tools, tools_description) IN
         /\ tools' = loaded.tools
         /\ tools_description' = loaded.tools_description
         /\ IF loaded.raised # None
            THEN /\ pc' = "failed"
                 /\ result' = <<"raised", loaded.raised>>
            ELSE /\ pc' = "idle"
                 /\ UNCHANGED result
    /\ UNCHANGED <<outreach, files, batch, agentClass, tracks, user_input, total_tokens,
                   token_error_count, response, locals, modelCalls,
                   netRequests, request_tools, choiceless, budgetFails, attempts, loopHist,
                   startHist>>
    /\ TurnObjects

\* the constructor is entered, with the catalog sources in any state
BuildInit ==
    /\ agentClass \in AgentClasses
    /\ base_tools_json \in FileStates
    /\ outreach_tools_json \in FileStates
    /\ tools = <<>>
    /\ tools_description = <<>>
    /\ deliberation_messages = <<>>
    /\ execution_messages = <<>>
    /\ deliberation_ids = <<>>
    /\ execution_ids = <<>>
    /\ pc = "new"
    /\ max_iterations = 1
    /\ final_checks = 0
    /\ RunStart
    /\ NoOutreach

BuildNext ==
    \/ BaseLoadTools
    \/ BaseAddMessages
    \/ OutreachAddPersona
    \/ OutreachLoadTools

BuildSpec == BuildInit /\ [][BuildNext]_vars

(***************************************************************************)
(* The outreach run: EmailOutreachProcessor.process_slice on each slice of *)
(* the recipient files, and OutreachTools.process_email_and_label on the   *)
(* one Gmail account every agent writes to.                                *)
(***************************************************************************)
MaxSlice == 2

\* what customer_<i>.json can be: no file, text that is no JSON, JSON that is
\* no object (null, a list), or a record without or with email_sent
RecordStates == {"missing", "undecodable", "not_object", "unsent", "sent"}

\* the subjects the model writes
Subjects == {"We miss you", "A note from us"}

\* the folder process_email_and_label creates its message in, and searches
Folder(mode) == IF mode THEN "sent" ELSE "drafts"

\* a call of process_email_and_label: the thread, the recipient index and
\* the number of the call in that recipient's run; EarlierCall stands for
\* whatever created the messages of earlier runs
CallId(p) == <<p, slice[p].i, slice[p].calls + 1>>
EarlierCall == <<0, 0, 0>>

\* a message of the account
Msg(subject, folder, by) ==
    [subject |-> subject, folder |-> folder, by |-> by, labelled_by |-> {}]

\* the ids of the messages of a folder with a subject, from position n down:
\* Gmail lists the newest message first, and an id is a position in mailbox
RECURSIVE MatchesFrom(_, _, _, _)
MatchesFrom(box, folder, subject, n) ==
    IF n = 0 THEN <<>>
    ELSE (IF box[n].folder = folder /\ box[n].subject = subject
          THEN <<n>> ELSE <<>>) \o MatchesFrom(box, folder, subject, n - 1)

\* client.search_messages(f"in:{folder} subject:{subject}") (lines 82-123)
search_messages(box, folder, subject) ==
    MatchesFrom(box, folder, subject, Len(box))

\* [begin_index, end_index) of a processor
SliceOf(cfg) == cfg.begin_index .. (cfg.end_index - 1)

\* the indices of the recipient files the processors name
Indices(procs) == UNION { SliceOf(procs[p]) : p \in DOMAIN procs }

\* process_slice before its first pass
SliceStart(cfg) ==
    [pc |-> "loop", i |-> cfg.begin_index, visited |-> <<>>, calls |-> 0,
     subject |-> "", sent |-> FALSE, reported |-> FALSE]

\* the processors started, the recipient files and the account as they are
\* when the threads start
OutreachStart(procs) ==
    /\ processors = procs
    /\ send_mode \in BOOLEAN
    /\ recipients_dir \in [Indices(procs) -> RecordStates]
    /\ mailbox \in { <<>>, <<Msg("We miss you", Folder(send_mode), EarlierCall)>> }
    /\ slice = [p \in DOMAIN procs |-> SliceStart(procs[p])]
    /\ handled = [i \in Indices(procs) |-> [readers |-> {}, agents |-> 0]]

\* the next pass of the for loop: i is the next index of the range, and the
\* agent of the pass that ends is dropped with what it did
Continue(p) ==
    [slice EXCEPT ![p] = [SliceStart(processors[p]) EXCEPT
                             !.i = slice[p].i + 1,
                             !.visited = slice[p].visited]]

\* the pass of process_slice for index i up to the call of
\* process_user_input (lines 57-94): the file is looked for and loaded, a
\* recipient already marked is skipped, and an agent is constructed for any
\* other; recipient.get on JSON that is no object raises AttributeError
\* outside every try block (line 75), which ends process_slice
SliceVisit(p) ==
    /\ slice[p].pc = "loop"
    /\ slice[p].i < processors[p].end_index
    /\ LET i == slice[p].i
           file == recipients_dir[i]
           seen == [slice EXCEPT ![p].visited = Append(@, i)]
       IN /\ slice' =
               CASE file \in {"missing", "undecodable", "sent"} ->
                        [seen EXCEPT ![p].i = @ + 1]
                 [] file = "not_object" ->
                        [seen EXCEPT ![p].pc = "crashed"]
                 [] OTHER ->
                        [seen EXCEPT ![p].pc = "run", ![p].calls = 0,
                                     ![p].subject = "", ![p].sent = FALSE,
                                     ![p].reported = FALSE]
          /\ handled' = [handled EXCEPT
                ![i].readers = @ \cup {p},
                ![i].agents = IF file = "unsent" THEN @ + 1 ELSE @]
    /\ UNCHANGED <<files, batch, single, send_mode, processors,
                   recipients_dir, mailbox>>

\* the first part of process_email_and_label (lines 55-60, 69-72), called by
\* the agent of the recipient in a loop pass: the message is sent or the
\* draft is saved.  client.send_email swallows every error but
\* FileNotFoundError (lines 349-352), so _send_email answers True for a
\* message that was not sent; client.save_draft answers False or raises
ToolCreate(p) ==
    /\ slice[p].pc = "run"
    /\ LoopGuard(slice[p].calls, max_iterations)
    /\ \E subject \in Subjects :
       \E outcome \in {"created", "swallowed", "refused"} :
          /\ outcome = "swallowed" => send_mode
          /\ mailbox' = IF outcome = "created"
                        THEN Append(mailbox, Msg(subject, Folder(send_mode), CallId(p)))
                        ELSE mailbox
          /\ slice' = IF outcome = "refused"
                      THEN [slice EXCEPT ![p].calls = @ + 1]
                      ELSE [slice EXCEPT ![p].pc = "created",
                                         ![p].subject = subject,
                                         ![p].sent = @ \/ (send_mode /\ outcome = "created")]
    /\ UNCHANGED <<files, batch, single, send_mode, processors,
                   recipients_dir, handled>>

\* self._add_label(message_id, ...): the label goes to the message with that
\* id, unless switch_label swallows an error (lines 218-221)
add_label(box, ids, by, done) ==
    IF done THEN [box EXCEPT ![ids[1]].labelled_by = @ \cup {by}] ELSE box

\* the rest of process_email_and_label (lines 63-66, 75-78, 81-90): the
\* folder is searched for the subject, the first id of the answer is
\* labelled, and the status is returned; an empty answer (nothing found, or
\* an error search_messages swallowed, lines 120-121) returns an error
ToolLabel(p) ==
    /\ slice[p].pc = "created"
    /\ \E found \in BOOLEAN, done \in BOOLEAN :
       LET ids == IF found
                  THEN search_messages(mailbox, Folder(send_mode), slice[p].subject)
                  ELSE <<>>
       IN IF ids = <<>>
          THEN /\ done
               /\ UNCHANGED mailbox
               /\ slice' = [slice EXCEPT ![p].pc = "run", ![p].calls = @ + 1,
                                         ![p].subject = ""]
          ELSE /\ mailbox' = add_label(mailbox, ids, CallId(p), done)
               /\ slice' = [slice EXCEPT ![p].pc = "run", ![p].calls = @ + 1,
                                         ![p].subject = "",
                                         ![p].reported = @ \/ send_mode]
    /\ UNCHANGED <<files, batch, single, send_mode, processors,
                   recipients_dir, handled>>

\* if self.send_mode (line 101)
Marks(mode) == mode

\* process_user_input returns (lines 96-108): in send mode the record is
\* marked and written back, unless the write fails (lines 107-108)
RunReturns(p) ==
    /\ slice[p].pc = "run"
    /\ \E written \in BOOLEAN :
          /\ ~Marks(send_mode) => written
          /\ recipients_dir' =
                IF Marks(send_mode) /\ written
                THEN [recipients_dir EXCEPT ![slice[p].i] = "sent"]
                ELSE recipients_dir
    /\ slice' = Continue(p)
    /\ UNCHANGED <<files, batch, single, send_mode, processors, mailbox,
                   handled>>

\* the construction of the agent or process_user_input raises (a fatal
\* ValueError, an API error): the error is logged (lines 110-111)
RunRaises(p) ==
    /\ slice[p].pc = "run"
    /\ slice' = Continue(p)
    /\ UNCHANGED <<files, batch, single, send_mode, processors,
                   recipients_dir, mailbox, handled>>

\* the range is exhausted (line 113)
SliceEnd(p) ==
    /\ slice[p].pc = "loop"
    /\ slice[p].i >= processors[p].end_index
    /\ slice' = [slice EXCEPT ![p].pc = "done"]
    /\ UNCHANGED <<files, batch, single, send_mode, processors,
                   recipients_dir, mailbox, handled>>

\* an agent constructed as OutreachAgent.__init__ leaves it, one loop pass
\* at most for each run
OutreachAgents ==
    /\ agentClass = "OutreachAgent"
    /\ base_tools_json = "list"
    /\ outreach_tools_json = "list"
    /\ tools = ConstructedTools(agentClass)
    /\ tools_description = ConstructedDescription(agentClass)
    /\ deliberation_messages = ConstructedTrack(agentClass)
    /\ execution_messages = ConstructedTrack(agentClass)
    /\ deliberation_ids = ConstructedObjects(agentClass).deliberation
    /\ execution_ids = ConstructedObjects(agentClass).execution
    /\ pc = "idle"
    /\ max_iterations = 1
    /\ final_checks = 0
    /\ RunStart

OutreachNext ==
    \E p \in DOMAIN processors :
        \/ SliceVisit(p)
        \/ ToolCreate(p)
        \/ ToolLabel(p)
        \/ RunReturns(p)
        \/ RunRaises(p)
        \/ SliceEnd(p)

\* root_threader.main: one thread for each slice of THREADS_CONFIG
DriverInit ==
    /\ OutreachAgents
    /\ OutreachStart(SubSeq(THREADS_CONFIG, 1, MaxThreads))

DriverSpec == DriverInit /\ [][OutreachNext]_vars

\* one processor on a slice of several recipients
SliceInit ==
    /\ OutreachAgents
    /\ OutreachStart(<<[name |-> "T1", begin_index |-> 0, end_index |-> MaxSlice]>>)

SliceSpec == SliceInit /\ [][OutreachNext]_vars

(***************************************************************************)
(* Properties.                                                             *)
(***************************************************************************)
Returned == pc = "idle" /\ result[1] = "returned"
Raised(e) == pc = "idle" /\ result = <<"raised", e>>
BudgetExceeded == "ValueError: Repeated token limit errors. Unable to proceed."
Last(track) == track[Len(track)]
\* new extends old by exactly the turns more
Extends(new, old, more) == new = old \o more
\* the turns the execution track got in the current invocation
ExecAppended == SubSeq(execution_messages, execStart + 1, Len(execution_messages))
HasTurn(track, turn) == \E i \in 1..Len(track) : track[i] = turn

\* C1: every invocation of process_user_input terminates: the loop makes at
\* most max_iterations passes, a model call handles at most max_retries
\* failed attempts, and a running invocation always comes to its end
\* (a return or a raise), whatever the model and the tools answer.
C1_Terminates ==
    /\ [](passes <= max_iterations /\ attempts <= max_retries)
    /\ (pc # "idle") ~> (pc = "idle")

\* an invocation that used every pass of the loop has ended
C1_Witness ==
    /\ Returned
    /\ passes = max_iterations
    /\ max_iterations = MaxIterations

C3_ExitAfterConfirmations ==
    /\ [][ endCalls' = endCalls + 1 =>
             IF endCalls < final_checks
             THEN /\ Len(execution_messages') = Len(execution_messages) + 2
                  /\ Last(execution_messages').role = "system"
                  /\ Last(execution_messages').content[1] =
                        "Confirmation Needed: This is your attempt "
                  /\ iteration_count' = iteration_count + 1
                  /\ pc' = "exec_test"
                  /\ accepted' = None
             ELSE /\ pc' = "exec_exit"
                  /\ accepted' # None
                  /\ iteration_count' = iteration_count ]_vars
    /\ [](accepted # None => endCalls = final_checks + 1)

\* a termination accepted after a confirmation had been demanded
C3_Witness ==
    /\ Returned
    /\ final_checks > 0
    /\ accepted # None
    /\ endCalls = final_checks + 1

\* C4: a response of the execution loop that carries no tool call appends
\* exactly one system warning turn to the execution track, adds one to
\* iteration_count, dispatches no handler and leaves the loop running: it
\* never ends the loop as a success.
C4_NoCallWarns ==
    [][ ( /\ pc = "exec_got"
          /\ ~response.isNone
          /\ response.choices # <<>>
          /\ response.choices[1].tool_calls = <<>> ) =>
        ( /\ Extends(execution_messages', execution_messages,
                     <<[role |-> "system", content |-> NOCALL_WARNING]>>)
          /\ deliberation_messages' = deliberation_messages
          /\ iteration_count' = iteration_count + 1
          /\ dispatches' = dispatches
          /\ pc' = "exec_test"
          /\ accepted' = None
          /\ result' = <<"none">> ) ]_vars

\* the loop has just warned about a response without a tool call
C4_Witness ==
    /\ pc = "exec_test"
    /\ iteration_count >= 1
    /\ Last(execution_messages) = [role |-> "system", content |-> NOCALL_WARNING]

\* C5: in either stage, an attempt whose estimate exceeds 13000 issues no
\* request and goes to the warning-retry protocol (the failure is counted,
\* and either a warning is appended or the retries are exhausted); a
\* request is issued only when the estimate is at most 13000.
C5_GuardBeforeRequest ==
    [][ /\ netRequests' # netRequests =>
              /\ pc \in CallPcs
              /\ _num_tokens_from_string(CallTrack) <= 13000
        /\ ( /\ pc \in CallPcs
             /\ token_error_count < max_retries
             /\ _num_tokens_from_string(CallTrack) > 13000 ) =>
              /\ netRequests' = netRequests
              /\ token_error_count' = token_error_count + 1
              /\ \/ /\ pc' = pc
                    /\ Last(IF pc = "delib_call" THEN deliberation_messages'
                            ELSE execution_messages')
                          = [role |-> "system", content |-> TOKEN_WARNING]
                 \/ /\ pc' = "idle"
                    /\ result' = <<"raised", BudgetExceeded>> ]_vars

\* the guard has refused an attempt of an execution-stage call
C5_Witness ==
    /\ pc = "exec_call"
    /\ budgetFails >= 1
    /\ _num_tokens_from_string(execution_messages) > 13000

\* C6: once max_retries attempts of one model call were refused by the
\* guard, process_user_input has failed with the budget-exceeded error; it
\* has not returned a result, in the deliberation call and in an execution
\* call alike.
C6_BudgetExceededIsFatal ==
    budgetFails = 5 =>
        /\ pc = "idle"
        /\ result = <<"raised", BudgetExceeded>>

\* an execution-stage call has exhausted its retries
C6_Witness ==
    /\ budgetFails = 5
    /\ passes >= 1
    /\ Raised(BudgetExceeded)

\* C7: when the loop ends at the iteration ceiling without an accepted
\* end_execution_loop, the forced-termination turn is the last turn of the
\* execution track and the call returns the accumulated exit_statement (the
\* statement of the last unconfirmed exit call, or the empty string); when
\* an end_execution_loop call is accepted no forced-termination turn is
\* appended.
C7_ForcedTermination ==
    Returned =>
        IF accepted = None
        THEN /\ iteration_count = max_iterations
             /\ Last(execution_messages) =
                   [role |-> "system", content |-> FORCED_TERMINATION]
             /\ result[2] = (IF lastEndArgs = None THEN ""
                             ELSE IF lastEndArgs = ""
                             THEN "No summary provided by end_execution_loop."
                             ELSE lastEndArgs)
        ELSE ~HasTurn(ExecAppended, [role |-> "system", content |-> FORCED_TERMINATION])

\* the model never called a tool and the run ended at the ceiling
C7_Witness ==
    /\ Returned
    /\ accepted = None
    /\ dispatches = 0
    /\ endCalls = 0
    /\ result[2] = ""
    /\ Last(execution_messages).content = FORCED_TERMINATION

\* C8: an invocation of process_user_input ends by returning a text or by
\* raising; it never returns None, also not when it is invoked again on an
\* agent whose previous invocation failed with the budget-exceeded error.
C8_NeverReturnsNone ==
    (pc = "idle" /\ invocations > 0) =>
        /\ result[1] \in {"returned", "raised"}
        /\ result[1] = "returned" => result[2] # None

\* a second invocation after a budget-exceeded failure has ended
C8_Witness ==
    /\ pc = "idle"
    /\ invocations = 2
    /\ token_error_count >= max_retries
    /\ result = <<"raised", "ValueError: Invalid response object format">>

C10_EmptySummaryKeepsLooping ==
    accepted # None => accepted # ""

\* the response in hand calls, first, a tool that neither the loop nor any
\* dispatcher knows
CallsUnregisteredTool ==
    /\ pc = "exec_got"
    /\ ~response.isNone
    /\ response.choices # <<>>
    /\ response.choices[1].tool_calls # <<>>
    /\ response.choices[1].tool_calls[1].name = "foo"

\* the result part of a tool turn (what follows "Result:\n")
PayloadOf(turn) == SubSeq(turn.content, 6, Len(turn.content))

\* the payload is an error payload that spells out the name of the tool
IsErrorNaming(payload, name) ==
    /\ Len(payload) >= 2
    /\ payload[1] = "{error: Tool "
    /\ payload[2] = name

\* the step records one tool turn for the call and leaves the loop running
RecordsAndContinues ==
    /\ Len(execution_messages') = Len(execution_messages) + 1
    /\ SubSeq(execution_messages', 1, Len(execution_messages)) = execution_messages
    /\ Last(execution_messages').role = "system"
    /\ Last(execution_messages').content[1] = "Function called: "
    /\ Last(execution_messages').content[2] = response.choices[1].tool_calls[1].name
    /\ iteration_count' = iteration_count + 1
    /\ pc' = "exec_test"
    /\ result' = <<"none">>

\* C11 as stated: a tool call naming an unregistered tool yields an error
\* payload that contains the literal tool name, the payload is recorded in
\* the execution track and the loop goes on, for the base agent and for the
\* subclass alike.
C11_UnregisteredToolNamed ==
    [][ CallsUnregisteredTool =>
          /\ RecordsAndContinues
          /\ IsErrorNaming(PayloadOf(Last(execution_messages')),
                           response.choices[1].tool_calls[1].name) ]_vars

\* C11 amended: a tool call naming an unregistered tool is recorded in the
\* execution track as one tool turn and the loop goes on instead of
\* aborting; the recorded payload is an error payload with the literal tool
\* name when the agent is an OutreachAgent, and null (the hook's None) when
\* it is a plain BaseAgent.
C11_UnregisteredToolRecorded ==
    [][ CallsUnregisteredTool =>
          /\ RecordsAndContinues
          /\ IF agentClass = "OutreachAgent"
             THEN IsErrorNaming(PayloadOf(Last(execution_messages')),
                                response.choices[1].tool_calls[1].name)
             ELSE PayloadOf(Last(execution_messages')) = <<"null">> ]_vars

\* the OutreachAgent has just recorded the error payload for the tool "foo"
C11_Witness ==
    /\ pc = "exec_test"
    /\ agentClass = "OutreachAgent"
    /\ iteration_count >= 1
    /\ Last(execution_messages).content[1] = "Function called: "
    /\ Last(execution_messages).content[2] = "foo"
    /\ IsErrorNaming(PayloadOf(Last(execution_messages)), "foo")

\* C12: a tool call whose argument text is no JSON is discarded and handled
\* like a response without a tool call: no handler is dispatched and no
\* end_execution_loop is taken, the no-call warning is appended, one
\* iteration is consumed, and the run goes on without raising.
C12_MalformedArgumentsAreNoCall ==
    [][ ( /\ pc = "exec_got"
          /\ ~response.isNone
          /\ response.choices # <<>>
          /\ response.choices[1].tool_calls # <<>>
          /\ response.choices[1].tool_calls[1].arguments = "{summary: do" ) =>
        ( /\ Extends(execution_messages', execution_messages,
                     <<[role |-> "system", content |-> NOCALL_WARNING]>>)
          /\ iteration_count' = iteration_count + 1
          /\ dispatches' = dispatches
          /\ endCalls' = endCalls
          /\ exit_statement' = exit_statement
          /\ pc' = "exec_test"
          /\ result' = <<"none">> ) ]_vars

\* the loop has discarded a call with truncated arguments and has warned
C12_Witness ==
    /\ pc = "exec_test"
    /\ discarded >= 1
    /\ endCalls = 0
    /\ Last(execution_messages) = [role |-> "system", content |-> NOCALL_WARNING]

\* the response in hand makes the OutreachAgent's handler raise: it calls
\* process_email_and_label with the JSON text null for its arguments
HandlerWillRaise ==
    /\ pc = "exec_got"
    /\ agentClass = "OutreachAgent"
    /\ ~response.isNone
    /\ response.choices # <<>>
    /\ response.choices[1].tool_calls # <<>>
    /\ response.choices[1].tool_calls[1] =
          [name |-> "process_email_and_label", arguments |-> "null"]

\* an attempt of an execution-stage call is answered without choices, so
\* that extract_response_content raises its ValueError
ChoicelessInIteration == pc = "exec_call" /\ choiceless' = choiceless + 1

\* C13: an exception raised in an execution iteration, other than a
\* recoverable budget failure (by a tool handler, by the client, or for a
\* response that cannot be used), leaves process_user_input at once: the
\* raising step appends nothing to the track, no "Error encountered" turn is
\* ever recorded, and after the raise the run makes no model call and no
\* tool dispatch.
C13_ExceptionsPropagate ==
    /\ [][ HandlerWillRaise =>
             /\ pc' = "idle"
             /\ result' = <<"raised", "AttributeError">>
             /\ execution_messages' = execution_messages
             /\ iteration_count' = iteration_count ]_vars
    /\ [][ ChoicelessInIteration =>
             /\ pc' = "idle"
             /\ result'[1] = "raised"
             /\ execution_messages' = execution_messages ]_vars
    /\ [][ (pc \in {"exec_call", "exec_got"} /\ result'[1] = "raised") =>
             /\ pc' = "idle"
             /\ execution_messages' = execution_messages
             /\ deliberation_messages' = deliberation_messages ]_vars
    /\ [][ (result[1] = "raised" /\ invocations' = invocations) =>
             /\ modelCalls' = modelCalls
             /\ netRequests' = netRequests
             /\ dispatches' = dispatches ]_vars
    /\ [](\A i \in 1..Len(execution_messages) :
             execution_messages[i].content[1] # "Error encountered: ")

\* C14: in every reachable state of an agent of either class, the first
\* turn of the deliberation track and the first turn of the execution track
\* is the base system instruction, and no turn object (dict) is an element
\* of both tracks.
C14_BaseFirstNoSharedTurns ==
    /\ deliberation_messages[1] = [role |-> "system", content |-> BASE_SYSTEM_MESSAGE]
    /\ execution_messages[1] = [role |-> "system", content |-> BASE_SYSTEM_MESSAGE]
    /\ Len(deliberation_ids) = Len(deliberation_messages)
    /\ Len(execution_ids) = Len(execution_messages)
    /\ \A i \in 1..Len(deliberation_ids) : \A j \in 1..Len(execution_ids) :
          deliberation_ids[i] # execution_ids[j]

\* an OutreachAgent whose invocation has returned: both tracks hold the
\* persona and the turns of both stages, and the user's turn is in both
\* tracks as two dicts with equal contents
C14_Witness ==
    /\ Returned
    /\ agentClass = "OutreachAgent"
    /\ Len(deliberation_messages) >= 6
    /\ Len(execution_messages) >= 7
    /\ deliberation_messages[4] = execution_messages[3]
    /\ deliberation_ids[4] # execution_ids[3]

\* old is an unchanged prefix of new
IsPrefix(old, new) ==
    /\ Len(old) <= Len(new)
    /\ SubSeq(new, 1, Len(old)) = old

\* C15: both tracks are append-only: in every step of an invocation
\* (deliberation, execution, budget retries) the previous contents of each
\* track, turn by turn and dict by dict, are an unchanged prefix of its new
\* contents.
C15_AppendOnly ==
    [][ /\ IsPrefix(deliberation_messages, deliberation_messages')
        /\ IsPrefix(execution_messages, execution_messages')
        /\ IsPrefix(deliberation_ids, deliberation_ids')
        /\ IsPrefix(execution_ids, execution_ids') ]_vars

\* two budget warnings in a row were appended behind the turns of an
\* execution-stage call
C15_Witness ==
    /\ pc = "exec_call"
    /\ budgetFails = 2
    /\ Len(execution_messages) >= execStart + 6
    /\ execution_messages[Len(execution_messages)] = [role |-> "system", content |-> TOKEN_WARNING]
    /\ execution_messages[Len(execution_messages) - 1] = [role |-> "system", content |-> TOKEN_WARNING]
    /\ execution_messages[execStart + 4].content[1] = "Deliberation Plan: "

\* the thread is in the deliberation stage (process_user_input up to the
\* return of _enforce_deliberation_stage)
InDeliberationStage == pc \in {"idle", "delib_call", "delib_got"}
\* the thread is in the execution stage (from line 372 to the return)
InExecutionStage == pc \in {"exec_start", "exec_test", "exec_call", "exec_got", "exec_exit"}

\* C16: stage memory isolation: every step of the execution stage (model
\* calls, warnings, tool-result turns, exit turns, forced termination)
\* leaves the deliberation track unchanged, and every step of the
\* deliberation stage leaves the execution track unchanged.
C16_StageIsolation ==
    [][ /\ InExecutionStage =>
              /\ deliberation_messages' = deliberation_messages
              /\ deliberation_ids' = deliberation_ids
        /\ InDeliberationStage =>
              /\ execution_messages' = execution_messages
              /\ execution_ids' = execution_ids ]_vars

\* the execution stage has recorded a tool result and a refused attempt,
\* and the deliberation track still ends with the plan
C16_Witness ==
    /\ pc = "exec_call"
    /\ dispatches >= 1
    /\ budgetFails >= 1
    /\ Len(deliberation_messages) = delibStart + 4
    /\ Last(deliberation_messages) = [role |-> "assistant", content |-> <<plan_content>>]
    /\ Last(execution_messages) = [role |-> "system", content |-> TOKEN_WARNING]

\* the references of the two tracks of agent object a
TracksOf(a) == {instances[a].deliberation_messages, instances[a].execution_messages}

\* what belongs to the agent of thread t: its binding, the locals of its
\* _execute_plan, its agent object and the contents of its two tracks
AgentStateOf(t) ==
    IF threadAgent[t] = 0 THEN <<0, frames[t]>>
    ELSE <<threadAgent[t], frames[t], AgentOf(t),
           lists[AgentOf(t).deliberation_messages],
           lists[AgentOf(t).execution_messages]>>

\* C17: when several agent instances run in separate threads, one per
\* recipient, then under every interleaving the instances are distinct
\* objects with distinct track lists, every turn in a track of an instance
\* was appended by the thread of that instance, and a step of one thread
\* leaves the tracks and the iteration, exit-attempt and token-error
\* counters of every other thread's instance as they were.
C17_InstancesShareNothing ==
    /\ [](\A t, u \in Threads :
            (t # u /\ threadAgent[t] # 0 /\ threadAgent[u] # 0) =>
               /\ threadAgent[t] # threadAgent[u]
               /\ TracksOf(threadAgent[t]) \cap TracksOf(threadAgent[u]) = {})
    /\ [](\A t \in Threads : threadAgent[t] # 0 =>
            \A r \in TracksOf(threadAgent[t]) :
               \A i \in 1..Len(lists[r]) : lists[r][i].by = t)
    /\ [][ \E t \in Threads :
             \A u \in Threads \ {t} : AgentStateOf(u)' = AgentStateOf(u) ]_vars

\* every thread is through; the agent of the first thread was built after
\* that of the second; the first ran a loop pass, the second was refused
\* max_retries times
C17_Witness ==
    /\ \A t \in Threads : threadPc[t] = "done" /\ threadAgent[t] # 0
    /\ threadAgent[1] = 2
    /\ threadAgent[2] = 1
    /\ frames[1].iteration_count >= 1
    /\ frames[2].iteration_count = 0
    /\ instances[2].token_error_count = 0
    /\ instances[1].token_error_count = 5
    /\ HasTurn(lists[instances[1].execution_messages],
               [role |-> "system", content |-> TOKEN_WARNING, by |-> 2])

\* C18: the run state is fresh per invocation: when process_user_input
\* starts, also after an invocation that failed with the budget-exceeded
\* error, iteration_count, exit_attempts and token_error_count are all 0.
C18_FreshRunState ==
    (pc = "delib_call" /\ attempts = 0) =>
        /\ iteration_count = 0
        /\ exit_attempts = 0
        /\ token_error_count = 0

\* the source is a well-formed catalog
WellFormed(state) == state \in {"list", "dict"}

\* the catalog an agent has when every malformed or missing source leaves
\* it without the tools of that source
DegradedCatalog ==
    (IF WellFormed(base_tools_json) THEN BaseToolsFile ELSE <<>>)
    \o (IF agentClass = "OutreachAgent" /\ WellFormed(outreach_tools_json)
        THEN OutreachToolsFile ELSE <<>>)

\* C19: construction never fails because a catalog source is missing or
\* malformed: for the base agent and the outreach agent alike no constructor
\* raises, and the constructed agent has the catalog without the tools of
\* the missing, undecodable or wrongly structured sources.
C19_ConstructionNeverFails ==
    /\ pc # "failed"
    /\ pc = "idle" => tools = DegradedCatalog

\* C20: the warning-and-retry protocol is triggered by the token-budget
\* condition only: the failure counter goes up and a warning turn is
\* appended to the track of the call only in an attempt whose estimate
\* exceeded 13000, and an attempt that issued its request (and met a network
\* failure or a malformed or choice-less response) is never retried.
C20_RetryOnlyOnBudget ==
    [][ /\ token_error_count' > token_error_count =>
              /\ pc \in CallPcs
              /\ _num_tokens_from_string(CallTrack) > 13000
        /\ (pc \in CallPcs /\ Len(deliberation_messages') + Len(execution_messages')
                                > Len(deliberation_messages) + Len(execution_messages)) =>
              _num_tokens_from_string(CallTrack) > 13000
        /\ (pc \in CallPcs /\ netRequests' # netRequests) => pc' # pc ]_vars


(***************************************************************************)
(* Budget warnings of one model call.                                      *)
(***************************************************************************)
\* the pre-flight guard refused an attempt in this step
BudgetFailureStep == budgetFails' = budgetFails + 1

\* the refusal ended the call with the fatal error
FatalStep == pc' = "idle" /\ result' = <<"raised", BudgetExceeded>>

\* C21: a budget failure that leaves retries appends exactly one system
\* warning to the track of the failing call and nothing to the other track,
\* and a fatal budget failure comes after exactly max_retries - 1 such
\* warnings of that call, so it is the max_retries-th refusal of the call.
C21_WarningPerBudgetFailure ==
    [][BudgetFailureStep =>
          IF FatalStep
          THEN /\ budgetFails' = max_retries
               /\ UNCHANGED tracks
          ELSE IF pc = "delib_call"
               THEN /\ deliberation_messages' =
                          deliberation_messages \o <<Sys(TOKEN_WARNING)>>
                    /\ UNCHANGED execution_messages
               ELSE /\ execution_messages' =
                          execution_messages \o <<Sys(TOKEN_WARNING)>>
                    /\ UNCHANGED deliberation_messages]_vars


(***************************************************************************)
(* What a model call does to the track it is given.                        *)
(***************************************************************************)
\* _call_model is running
InModelCall == pc \in CallPcs

\* C22 as stated: a _call_model call leaves the track it is given as it
\* was, whether it returns or raises.
C22_CallLeavesTrack ==
    [][InModelCall =>
          /\ pc = "delib_call" => UNCHANGED deliberation_messages
          /\ pc = "exec_call" => UNCHANGED execution_messages]_vars

\* C22, amended: a _call_model call changes the track it is given only by
\* appending the system token-limit warning, one for each failed attempt
\* that it handles and retries; it changes nothing else in either track, and
\* the step on which it returns or raises leaves both tracks as they were.
C22_CallOnlyAppendsWarnings ==
    [][InModelCall =>
          \/ UNCHANGED tracks
          \/ /\ pc' = pc
             /\ attempts' = attempts + 1
             /\ IF pc = "delib_call"
                THEN /\ deliberation_messages' =
                           deliberation_messages \o <<Sys(TOKEN_WARNING)>>
                     /\ UNCHANGED execution_messages
                ELSE /\ execution_messages' =
                           execution_messages \o <<Sys(TOKEN_WARNING)>>
                     /\ UNCHANGED deliberation_messages]_vars

\* an execution call that has appended a warning and is about to retry
C22_Witness ==
    /\ pc = "exec_call"
    /\ attempts >= 1
    /\ Len(execution_messages) > execStart + 4
    /\ Last(execution_messages) = Sys(TOKEN_WARNING)


(***************************************************************************)
(* The deliberation stage within one invocation.                           *)
(***************************************************************************)
\* how many turns after position `from` of the track equal `turn`
CountSince(track, from, turn) ==
    Cardinality({i \in (from + 1)..Len(track) : track[i] = turn})

\* the plan text has been produced and appended to the deliberation track
PlanProduced ==
    /\ plan_content \in Plans
    /\ Last(deliberation_messages) = Assistant(<<plan_content>>)

\* C23: in every invocation the deliberation stage is entered exactly once
\* and has produced the plan before the execution stage issues a model call;
\* every request of the deliberation call is sent without a tool catalog;
\* no tool handler is dispatched before the plan text exists.
C23_DeliberateOnceWithoutTools ==
    /\ [](invocations >= 1 =>
            CountSince(deliberation_messages, delibStart,
                       Sys(DELIBERATION_MESSAGE)) = 1)
    /\ [](InExecutionStage => PlanProduced)
    /\ [](InDeliberationStage /\ pc # "idle" => passes = 0 /\ dispatches = 0)
    /\ [][(pc = "delib_call" /\ netRequests' # netRequests) =>
             request_tools' = NoCatalog]_vars
    /\ [][(pc = "exec_call" /\ netRequests' # netRequests) =>
             PlanProduced]_vars
    /\ [][dispatches' # dispatches /\ pc # "idle" => PlanProduced]_vars

\* a handler was dispatched on a request that carried the catalog, after a
\* deliberation request that carried none had produced the plan
C23_Witness ==
    /\ pc = "exec_test"
    /\ dispatches = 1
    /\ request_tools = [given |-> TRUE, catalog |-> tools]
    /\ PlanProduced
    /\ CountSince(deliberation_messages, delibStart, Sys(tools_description)) = 1


(***************************************************************************)
(* The turns the execution track gets before the loop.                     *)
(***************************************************************************)
\* the turns appended to the execution track since construction
AppendedSinceConstruction ==
    SubSeq(execution_messages, Len(ConstructedTrack(agentClass)) + 1,
           Len(execution_messages))

\* the first execution-stage model call of a first invocation is about to
\* make its first attempt
AtFirstExecutionCall ==
    /\ invocations = 1
    /\ pc = "exec_call"
    /\ passes = 1
    /\ attempts = 0

\* C24: at the first execution-stage model call of a first invocation the
\* execution track has gained exactly three turns since construction: the
\* execution-stage instruction, the user input, and the plan wrapped as
\* "Deliberation Plan: ..."; the user input is in the track exactly once.
C24_ThreePreludeTurns ==
    AtFirstExecutionCall =>
        /\ AppendedSinceConstruction =
              <<Sys(EXECUTION_MESSAGE), User(<<user_input>>),
                Sys(PlanMessage(plan_content))>>
        /\ CountSince(execution_messages, 0, User(<<user_input>>)) = 1


(***************************************************************************)
(* What crosses from the deliberation stage into the execution track.      *)
(***************************************************************************)
\* the turns the running invocation appended to the deliberation track
DelibAppended ==
    SubSeq(deliberation_messages, delibStart + 1, Len(deliberation_messages))

\* the positions of the execution track that hold a "Deliberation Plan" turn
\* of the running invocation
PlanTurns ==
    {i \in (execStart + 1)..Len(execution_messages) :
        /\ execution_messages[i].role = "system"
        /\ execution_messages[i].content[1] = "Deliberation Plan: "}

\* the prelude of the execution stage has been appended
PreludeDone == pc \in {"exec_test", "exec_call", "exec_got", "exec_exit"}

\* C25: once deliberation is over, the deliberation track ends with an
\* assistant turn that holds the plan text; the execution track's
\* "Deliberation Plan" turn carries that same text; and no other turn of
\* the deliberation stage (its instruction, the tool-catalog description,
\* its budget warnings, the assistant turn itself) is copied into the
\* execution track, as contents or as an object.
C25_OnlyPlanTextCrosses ==
    /\ [](InExecutionStage =>
            /\ Last(deliberation_messages).role = "assistant"
            /\ Last(deliberation_messages).content = <<plan_content>>)
    /\ [](PreludeDone =>
            /\ Cardinality(PlanTurns) = 1
            /\ \A i \in PlanTurns :
                  execution_messages[i].content =
                     <<"Deliberation Plan: ">> \o Last(deliberation_messages).content)
    /\ [](\A i \in 1..Len(ExecAppended) :
            /\ ExecAppended[i] # Sys(DELIBERATION_MESSAGE)
            /\ ExecAppended[i] # Sys(tools_description)
            /\ ExecAppended[i].role = "assistant" =>
                  ExecAppended[i] # Last(deliberation_messages))
    /\ [](\A i \in 1..Len(deliberation_ids) : \A j \in 1..Len(execution_ids) :
            deliberation_ids[i] # execution_ids[j])
    /\ [][InDeliberationStage => UNCHANGED execution_messages]_vars

\* the deliberation call was warned once before it produced the plan, and
\* the execution loop runs on a track without that warning
C25_Witness ==
    /\ pc = "exec_call"
    /\ HasTurn(DelibAppended, Sys(TOKEN_WARNING))
    /\ ~HasTurn(ExecAppended, Sys(TOKEN_WARNING))
    /\ Cardinality(PlanTurns) = 1
    /\ Len(DelibAppended) = 5


(***************************************************************************)
(* One dispatch and one recording turn per tool call.                      *)
(***************************************************************************)
\* the loop body is about to act on a response whose first tool call names
\* a tool other than end_execution_loop
FirstCallNamesOtherTool ==
    /\ pc = "exec_got"
    /\ ~response.isNone
    /\ HasToolCall(response)
    /\ response.choices[1].tool_calls[1].name # "end_execution_loop"

FirstCall == response.choices[1].tool_calls[1]

\* the step appends one system turn that records the tool name, the
\* arguments and a formatted result of the handler, and goes on to the
\* loop test without a request
RecordsToolTurn ==
    /\ Len(execution_messages') = Len(execution_messages) + 1
    /\ IsPrefix(execution_messages, execution_messages')
    /\ LET turn == Last(execution_messages')
       IN /\ turn.role = "system"
          /\ Len(turn.content) >= 6
          /\ SubSeq(turn.content, 1, 5) =
                <<"Function called: ", FirstCall.name, "\nArguments passed: ",
                  FirstCall.arguments, "\nResult:\n">>
          /\ \E outcome \in _handle_specific_tool(agentClass, FirstCall.name,
                                                  json_loads(FirstCall.arguments)[2]) :
                /\ outcome[1] = "return"
                /\ PayloadOf(turn) = _format_tool_result(outcome[2])
    /\ pc' = "exec_test"

\* requests and dispatches happen one at a time, each at its own place
OneInFlight ==
    /\ (dispatches' # dispatches /\ pc # "idle") =>
          /\ pc = "exec_got"
          /\ dispatches' = dispatches + 1
          /\ netRequests' = netRequests
          /\ modelCalls' = modelCalls
    /\ netRequests' # netRequests =>
          /\ pc \in CallPcs
          /\ netRequests' = netRequests + 1
          /\ dispatches' = dispatches

\* C26 as stated: every response naming a tool other than
\* end_execution_loop gets exactly one dispatch and exactly one system turn
\* recording name, arguments and formatted result, appended before the next
\* model call; requests and dispatches never overlap.
C26_EveryToolCallRecorded ==
    [][ /\ FirstCallNamesOtherTool =>
              /\ dispatches' = dispatches + 1
              /\ RecordsToolTurn
        /\ OneInFlight ]_vars

\* C26, amended: a response whose first tool call names a tool other than
\* end_execution_loop with arguments that parse as JSON gets exactly one
\* dispatch; when the handler returns, exactly one system turn recording
\* name, arguments and formatted result is appended before the next model
\* call, and when it raises the invocation ends with nothing appended.  When
\* the arguments do not parse there is no dispatch and the no-call warning
\* is appended instead.  Requests and dispatches never overlap.
C26_ParsedToolCallRecorded ==
    [][ /\ FirstCallNamesOtherTool =>
              IF json_loads(FirstCall.arguments)[1]
              THEN /\ dispatches' = dispatches + 1
                   /\ \/ RecordsToolTurn
                      \/ /\ pc' = "idle"
                         /\ result'[1] = "raised"
                         /\ UNCHANGED execution_messages
              ELSE /\ dispatches' = dispatches
                   /\ execution_messages' = execution_messages \o NoCallTurns
        /\ OneInFlight ]_vars

\* the subclass handler ran once for process_email_and_label and its result
\* is on the track when the loop goes on
C26_Witness ==
    /\ agentClass = "OutreachAgent"
    /\ pc = "exec_test"
    /\ dispatches = 1
    /\ passes = 1
    /\ Last(execution_messages).content[1] = "Function called: "
    /\ Last(execution_messages).content[2] = "process_email_and_label"
    /\ PayloadOf(Last(execution_messages)) =
          <<"{status: Draft saved and labeled successfully.}">>


(***************************************************************************)
(* The counters of the execution loop.                                     *)
(***************************************************************************)
\* the loop body has ended a pass and control is back at the loop test
PassGoesOn == pc = "exec_got" /\ pc' = "exec_test"

\* an attempt of an execution-stage model call is answered with a response
SuccessfulExecutionCall ==
    /\ pc = "exec_call"
    /\ pc' = "exec_got"
    /\ netRequests' = netRequests + 1

\* C27: in the execution loop 0 <= iteration_count <= max_iterations and
\* 0 <= exit_attempts <= final_checks; every pass that does not end the
\* loop (no call, unconfirmed exit, ordinary tool call) adds exactly one to
\* iteration_count and nothing else changes it, so a successful
\* execution-stage model call is always the one of pass iteration_count + 1
\* and an invocation has at most max_iterations of them.
C27_CountersBounded ==
    /\ [](/\ 0 <= iteration_count /\ iteration_count <= max_iterations
          /\ 0 <= exit_attempts /\ exit_attempts <= final_checks
          /\ exit_attempts <= iteration_count)
    /\ [][PassGoesOn => iteration_count' = iteration_count + 1]_vars
    /\ [][(InExecutionStage /\ ~PassGoesOn) => UNCHANGED iteration_count]_vars
    /\ [][SuccessfulExecutionCall =>
             /\ passes = iteration_count + 1
             /\ passes <= max_iterations]_vars

\* both counters are at their limits: one unconfirmed exit and one tool
\* call used the two passes
C27_Witness ==
    /\ pc = "exec_test"
    /\ max_iterations = MaxIterations
    /\ iteration_count = max_iterations
    /\ final_checks = MaxFinalChecks
    /\ exit_attempts = final_checks
    /\ dispatches = 1
    /\ endCalls = 1


(***************************************************************************)
(* The parser honours the first tool call of a response only.              *)
(***************************************************************************)
\* the loop body is about to parse a response
AboutToParse == pc = "exec_got" /\ ~response.isNone

\* the tool calls of the response after the first one
ExtraCalls ==
    IF HasToolCall(response)
    THEN Tail(response.choices[1].tool_calls)
    ELSE <<>>

\* a tool turn for the call is among the turns the step appends
RecordedInStep(call) ==
    \E i \in (Len(execution_messages) + 1)..Len(execution_messages') :
        /\ execution_messages'[i].content[1] = "Function called: "
        /\ execution_messages'[i].content[2] = call.name

\* C28: for every response the parser returns the name and arguments of the
\* first tool-call entry only; the further tool calls of the response are
\* never dispatched and never recorded; a response with no choices or no
\* tool-call entries yields the no-call pair.
C28_FirstToolCallOnly ==
    /\ [](AboutToParse =>
            IF HasToolCall(response)
            THEN IF json_loads(FirstCall.arguments)[1]
                 THEN _parse_tool_call(response) =
                         <<FirstCall.name, json_loads(FirstCall.arguments)[2]>>
                 ELSE _parse_tool_call(response) = NoCallPair
            ELSE _parse_tool_call(response) = NoCallPair)
    /\ [](_parse_tool_call(ChoicelessResponse) = NoCallPair)
    /\ [][AboutToParse =>
             /\ dispatches' <= dispatches + 1
             /\ endCalls' + dispatches' <= endCalls + dispatches + 1
             /\ Len(execution_messages') <= Len(execution_messages) + 2
             /\ \A k \in 1..Len(ExtraCalls) :
                   (ExtraCalls[k].name # FirstCall.name) =>
                      /\ ~RecordedInStep(ExtraCalls[k])
                      /\ (ExtraCalls[k].name = "end_execution_loop") =>
                            (endCalls' = endCalls /\ pc' # "exec_exit")
                      /\ (ExtraCalls[k].name # "end_execution_loop") =>
                            (FirstCall.name = "end_execution_loop" =>
                                dispatches' = dispatches)]_vars

\* a response with two tool calls has been received and the parser returns
\* the first of them, the call of "foo" before the end_execution_loop call
C28_Witness ==
    /\ AboutToParse
    /\ HasToolCall(response)
    /\ Len(response.choices[1].tool_calls) = 2
    /\ response.choices[1].tool_calls[2].name = "end_execution_loop"
    /\ _parse_tool_call(response) = <<"foo", Dict(<<>>, "{text: hi}")>>


(***************************************************************************)
(* The type of the arguments the parser hands on.                          *)
(***************************************************************************)
\* C29: whenever the parser returns a tool name, the arguments it returns
\* are a key/value mapping; argument text that is JSON but no object (null,
\* an array, a number) never reaches the exit-summary lookup or a tool
\* handler as a value that is no mapping.
C29_ArgumentsAreMapping ==
    /\ [](AboutToParse =>
            (_parse_tool_call(response)[1] # None =>
                _parse_tool_call(response)[2].type = "dict"))
    /\ [][(AboutToParse /\ ~NoFunctionName(ParsedName)) =>
             ParsedArguments.type = "dict"]_vars


(***************************************************************************)
(* The formatted tool result.                                              *)
(***************************************************************************)
TruncationMarker == "... [truncated]"

\* what the formatter has to make of a payload: its serialisation, or the
\* first max_length characters of it followed by the marker
ExpectedFormat(payload) ==
    IF Len(Serialized(payload)) <= max_length
    THEN Serialized(payload)
    ELSE SubSeq(Serialized(payload), 1, max_length) \o TruncationMarker

\* payloads whose serialisation has one character less than the limit,
\* as many as the limit, and one more
BoundaryPayloads ==
    { <<"{", SubSeq(LongClientError, 1, n - 2), "}">> :
        n \in (max_length - 1)..(max_length + 1) }

\* the payloads the handlers of the two classes return for the tool calls
\* the model can make
HandlerPayloads ==
    { outcome[2] :
        outcome \in { o \in UNION { _handle_specific_tool(cls, call.name,
                                            json_loads(call.arguments)[2]) :
                                        cls \in AgentClasses,
                                        call \in {c \in OtherCalls :
                                                     json_loads(c.arguments)[1]} } :
                        o[1] = "return" } }

\* the tool turns of the execution track
ToolTurns ==
    {i \in 1..Len(execution_messages) :
        /\ execution_messages[i].role = "system"
        /\ execution_messages[i].content[1] = "Function called: "}

\* C30: the formatted tool result is the pretty-printed JSON serialisation
\* of the payload when that has at most 1000 characters, and otherwise its
\* first 1000 characters followed by the truncation marker, so that a
\* formatted result is never longer than 1000 characters plus the marker.
C30_FormattedResultBounded ==
    /\ [][(FirstCallNamesOtherTool /\ pc' = "exec_test"
                                   /\ dispatches' = dispatches + 1) =>
             \E outcome \in _handle_specific_tool(agentClass, FirstCall.name,
                                                  json_loads(FirstCall.arguments)[2]) :
                 /\ outcome[1] = "return"
                 /\ Serialized(PayloadOf(Last(execution_messages'))) =
                       ExpectedFormat(outcome[2])]_vars
    /\ [](\A i \in ToolTurns :
            Len(Serialized(PayloadOf(execution_messages[i]))) <=
               max_length + Len(TruncationMarker))
    /\ [](\A payload \in BoundaryPayloads \cup HandlerPayloads :
            /\ Serialized(_format_tool_result(payload)) = ExpectedFormat(payload)
            /\ Len(Serialized(_format_tool_result(payload))) <=
                  max_length + Len(TruncationMarker))

\* a result of 1200 characters was recorded as its first 1000 characters
\* and the marker
C30_Witness ==
    /\ pc = "exec_test"
    /\ dispatches = 1
    /\ Last(execution_messages).content[2] = "process_email_and_label"
    /\ Len(PayloadOf(Last(execution_messages))) = 2
    /\ Len(PayloadOf(Last(execution_messages))[1]) = max_length
    /\ PayloadOf(Last(execution_messages))[2] = TruncationMarker
    /\ Len(Serialized(PayloadOf(Last(execution_messages)))) = 1015


(***************************************************************************)
(* The tool-catalog description handed to the deliberation stage.          *)
(***************************************************************************)
\* the description has an entry for the tool of that name
Describes(description, name) ==
    \E j \in 1..(Len(description) - 1) :
        description[j] = "Tool: " /\ description[j + 1] = name

\* C31: the description string injected into the deliberation track
\* describes every tool of the catalog that is offered to the model during
\* execution, end_execution_loop included, for the base agent and for a
\* subclass that loads further tool definitions.
C31_DescriptionCoversCatalog ==
    (invocations >= 1 /\ pc # "idle") =>
        /\ HasTurn(DelibAppended, Sys(tools_description))
        /\ Describes(tools_description, "end_execution_loop")
        /\ \A i \in 1..Len(RequestTools(TRUE).catalog) :
              Describes(tools_description, RequestTools(TRUE).catalog[i])


(***************************************************************************)
(* A dispatch hook that returns None.                                      *)
(***************************************************************************)
\* the loop body is about to dispatch a tool call to a hook that returns
\* None: the default hook of BaseAgent, which does so for every name
DispatchesToNoneHook ==
    /\ FirstCallNamesOtherTool
    /\ json_loads(FirstCall.arguments)[1]
    /\ agentClass = "BaseAgent"

\* C32: a dispatch hook that returns None counts as "no specific handling",
\* not as an error: the call is recorded in the execution track with the
\* result null, iteration_count goes up by one, nothing is raised, and the
\* loop goes on to its next model call (while the iteration limit allows
\* one).
C32_NoneIsNoError ==
    /\ [][DispatchesToNoneHook =>
             /\ dispatches' = dispatches + 1
             /\ RecordsToolTurn
             /\ PayloadOf(Last(execution_messages')) = <<"null">>
             /\ iteration_count' = iteration_count + 1
             /\ UNCHANGED result]_vars
    /\ [][(pc = "exec_test" /\ iteration_count < max_iterations) =>
             (pc' = "exec_call" /\ modelCalls' = modelCalls + 1)]_vars

\* the null result of the default hook is on the track and the next model
\* call of the loop is under way
C32_Witness ==
    /\ agentClass = "BaseAgent"
    /\ pc = "exec_call"
    /\ passes = 2
    /\ dispatches = 1
    /\ attempts = 0
    /\ Last(execution_messages).content[1] = "Function called: "
    /\ PayloadOf(Last(execution_messages)) = <<"null">>


(***************************************************************************)
(* A model call whose track is over the budget.                            *)
(***************************************************************************)
\* an attempt of the running model call is about to be refused by the guard
GuardTrips ==
    /\ InModelCall
    /\ RetryGuard(token_error_count)
    /\ OverBudget(_num_tokens_from_string(CallTrack))

\* the first attempt of the running model call is about to be refused
FirstAttemptOverBudget == GuardTrips /\ attempts = 0

\* C33: once the pre-flight guard trips in a model call it trips on every
\* retry of that call, since a retry only appends a warning to the same
\* track: the call issues no request, each refusal counts, and the call can
\* only be left by the fatal budget-exceeded error, which it always reaches.
C33_OverBudgetStaysOverBudget ==
    /\ [][GuardTrips =>
             /\ netRequests' = netRequests
             /\ token_error_count' = token_error_count + 1
             /\ \/ FatalStep
                \/ /\ pc' = pc
                   /\ IsPrefix(CallTrack, CallTrack')
                   /\ _num_tokens_from_string(CallTrack') >=
                         _num_tokens_from_string(CallTrack)
                   /\ GuardTrips']_vars
    /\ FirstAttemptOverBudget ~> (pc = "idle" /\ Raised(BudgetExceeded))

\* the first attempt of an execution-stage call was refused, and so were
\* the three retries after it, without a request
C33_Witness ==
    /\ pc = "exec_call"
    /\ budgetFails = 4
    /\ attempts = 4
    /\ token_error_count = 4
    /\ OverBudget(_num_tokens_from_string(execution_messages))


(***************************************************************************)
(* What the returned text tells about the way the loop ended.              *)
(***************************************************************************)
\* the loop of the invocation that returned ended at the iteration ceiling
EndedByForcedTermination ==
    /\ Returned
    /\ accepted = None
    /\ Last(execution_messages) = Sys(FORCED_TERMINATION)

\* the loop of the invocation that returned ended by the confirmed-exit break
EndedByAcceptedExit ==
    /\ Returned
    /\ accepted # None
    /\ endCalls = final_checks + 1
    /\ Last(execution_messages).role = "assistant"

\* C34: through process_user_input, which runs the loop with
\* final_checks = 0, the returned string is empty if and only if the loop
\* ended by forced termination at the iteration ceiling, and every accepted
\* end_execution_loop gives a non-empty return value.
C34_EmptyIffForced ==
    (Returned /\ final_checks = 0) =>
        /\ (result[2] = "") <=> EndedByForcedTermination
        /\ EndedByAcceptedExit => result[2] # ""
        /\ EndedByForcedTermination \/ EndedByAcceptedExit

\* a run with final_checks = 0 used its passes on tool calls and was ended
\* at the ceiling with an empty result
C34_Witness ==
    /\ Returned
    /\ final_checks = 0
    /\ max_iterations = MaxIterations
    /\ dispatches = max_iterations
    /\ EndedByForcedTermination
    /\ result[2] = ""

\* C35 as stated: for every final_checks and max_iterations, a non-empty
\* summary returned by _execute_plan means that an end_execution_loop call
\* was accepted and the loop did not end by forced termination.
C35_NonEmptyMeansAccepted ==
    (Returned /\ result[2] # "") =>
        (EndedByAcceptedExit /\ ~EndedByForcedTermination)

\* C35, amended: a non-empty summary returned by _execute_plan means that
\* an end_execution_loop call was made in that run; the call was accepted
\* when final_checks = 0 or when the loop did not end at the iteration
\* ceiling, and otherwise the text is the statement of the last unconfirmed
\* call, returned after forced termination.
C35_NonEmptyMeansExitCalled ==
    (Returned /\ result[2] # "") =>
        /\ endCalls >= 1
        /\ final_checks = 0 => EndedByAcceptedExit
        /\ \/ EndedByAcceptedExit /\ ~EndedByForcedTermination
           \/ /\ EndedByForcedTermination
              /\ endCalls <= final_checks
              /\ result[2] = (IF lastEndArgs = "" THEN PLACEHOLDER ELSE lastEndArgs)

\* an exit call that still needed its confirmation left its statement
\* behind, and the run was ended at the ceiling with that statement
C35_Witness ==
    /\ Returned
    /\ final_checks = 1
    /\ endCalls = 1
    /\ EndedByForcedTermination
    /\ result[2] = "partial"


(***************************************************************************)
(* The batch driver and the recipient files.                               *)
(***************************************************************************)
\* two slices of a configuration share no index
Disjoint(cfgs) ==
    \A a, b \in DOMAIN cfgs :
        a # b => SliceOf(cfgs[a]) \cap SliceOf(cfgs[b]) = {}

\* C36: the slices of THREADS_CONFIG are pairwise disjoint, so that under
\* every interleaving of the threads each recipient file is read and written
\* by at most one thread, and at most one agent is constructed for a
\* recipient in a run
C36_OneThreadPerRecipient ==
    /\ Disjoint(THREADS_CONFIG)
    /\ Disjoint(processors)
    /\ \A i \in DOMAIN handled :
          /\ Cardinality(handled[i].readers) <= 1
          /\ handled[i].agents <= 1

\* every thread has finished its slice, each with an agent of its own, and
\* a record was written
C36_Witness ==
    /\ \A p \in DOMAIN processors : slice[p].pc = "done"
    /\ Len(processors) >= 2
    /\ \A i \in DOMAIN handled :
          Cardinality(handled[i].readers) = 1 /\ handled[i].agents = 1
    /\ \E i \in DOMAIN recipients_dir : recipients_dir[i] = "sent"


(***************************************************************************)
(* The email_sent mark of a recipient record.                              *)
(***************************************************************************)
\* the step marks the record of index i
MarksRecord(i) == recipients_dir[i] # "sent" /\ recipients_dir'[i] = "sent"

\* the run of processor p for its current recipient has sent a message and
\* its tool has reported a successful send
SentAndReported(p) == send_mode /\ slice[p].sent /\ slice[p].reported

\* processor p is about to visit a record that is marked already
AtMarkedRecord(p) ==
    /\ slice[p].pc = "loop"
    /\ slice[p].i < processors[p].end_index
    /\ recipients_dir[slice[p].i] = "sent"

\* C37: a recipient record is marked email_sent = True only after an email
\* to that recipient was sent in its run, in send mode and with a successful
\* send reported by process_email_and_label; a record marked already is
\* skipped without an agent being constructed
C37_MarkedOnlyAfterSend ==
    [][\A p \in DOMAIN processors :
          /\ (slice[p].i \in DOMAIN recipients_dir /\ MarksRecord(slice[p].i))
                => SentAndReported(p)
          /\ (AtMarkedRecord(p) /\ SliceVisit(p))
                => /\ slice'[p].pc = "loop"
                   /\ handled'[slice[p].i].agents = handled[slice[p].i].agents]_vars

(***************************************************************************)
(* Failures inside a slice.                                                *)
(***************************************************************************)
\* the visit of processor p fails: the file does not load, or what it holds
\* cannot be processed as a record
VisitFails(p) ==
    /\ slice[p].pc = "loop"
    /\ slice[p].i < processors[p].end_index
    /\ recipients_dir[slice[p].i] \in {"undecodable", "not_object"}
    /\ SliceVisit(p)

\* begin_index, ..., end_index - 1
WholeSlice(cfg) ==
    [k \in 1..(cfg.end_index - cfg.begin_index) |-> cfg.begin_index + k - 1]

\* C38: a failure while loading or processing one recipient never stops
\* process_slice: the loop goes on with the next index and the record of the
\* failed recipient is left as it was, and a slice is only ever left with
\* every index of [begin_index, end_index) visited, in increasing order
C38_FailureDoesNotStopSlice ==
    /\ [][\A p \in DOMAIN processors :
             (VisitFails(p) \/ RunRaises(p))
                => /\ slice'[p].pc = "loop"
                   /\ slice'[p].i = slice[p].i + 1
                   /\ recipients_dir' = recipients_dir]_vars
    /\ [](\A p \in DOMAIN processors :
             slice[p].pc \notin {"loop", "run", "created"}
                => slice[p].visited = WholeSlice(processors[p]))

(***************************************************************************)
(* The message that gets the outreach label.                               *)
(***************************************************************************)
\* C39: the message a call of process_email_and_label labels is the draft or
\* sent message that same call created, under every interleaving of the
\* calls of the other threads on the account and with earlier messages of
\* the same subject in it
C39_LabelOnOwnMessage ==
    \A n \in DOMAIN mailbox : mailbox[n].labelled_by \subseteq {mailbox[n].by}

====
